---- MODULE Spec2Model ----
(***************************************************************************)
(* The progressive extraction pipeline of did-exit: BatchProcessor         *)
(* (src/js/batch-processor.js) driving DatabaseManager                     *)
(* (src/unnamed/part_003).  One BatchProcessor instance, its pending       *)
(* queue, its drain loops (processQueue invocations), the concurrent       *)
(* processPDFInBatches invocations and the IndexedDB stores they share.    *)
(* Every await of the source is a point where another invocation may run;  *)
(* an action is the code between two such points.                          *)
(***************************************************************************)
EXTENDS Integers, Sequences, FiniteSets, TLC

\* ------------------------------------------------------------------ bounds
\* Largest chunk plan (units per document) explored.
MaxBatches == 3
\* Number of processPDFInBatches invocations explored.
MaxSubmits == 2
\* Number of cancelProcessing invocations explored.
MaxCancels == 1
\* Largest number of question records one oracle call yields.
MaxYield == 1

\* ------------------------------------------------------- program constants
\* this.rateLimitDelay (milliseconds)
rateLimitDelay == 5000
\* The timer of Promise.race in processQueue (milliseconds)
batchTimeout == 120000
\* Granularity of the clock: one Tick of the model is this many milliseconds.
TickMs == rateLimitDelay

\* The documents (content fingerprints) submitted.
PdfIds == {"docA"}
Subs == 1..MaxSubmits
LoopIds == 1..MaxSubmits

\* this.lastRequestTime is undefined until the first enforceRateLimit.
Never == -1
NoPDF == [exists |-> FALSE]
NoItem == [pdfId |-> "none", batchNumber |-> 0, totalBatches |-> 0, sub |-> 0]

VARIABLES
    pdfs,             \* IndexedDB store "pdfs": pdfId -> record or NoPDF
    questions,        \* IndexedDB store "questions": pdfId -> set of records
    processingQueue,  \* this.processingQueue
    isProcessing,     \* this.isProcessing
    abortController,  \* this.abortController: 0 = null, i = the one made by submit i
    aborted,          \* the AbortControllers whose signal is aborted
    lastRequestAge,   \* now - this.lastRequestTime, saturating at rateLimitDelay
    sub,              \* the processPDFInBatches invocations
    loops,            \* the processQueue invocations
    emitted,          \* the notifications emitted by the last step of the code, in order
    oracleStart,      \* the oracle call issued by the last step of the code, or NoCall
    sinceDrainCall,   \* time since the last oracle call of a drained unit began
    cancels,          \* number of cancelProcessing invocations so far
    cancelledSubs,    \* the submissions a cancelProcessing has cancelled
    failedUnits,      \* pdfId -> some background unit failed (empty, error, timeout)
    drainCalls,       \* number of oracle calls issued for drained units
    unitCalls,        \* submission -> unit number -> oracle calls issued for that unit
    completeNotified, \* pdfId -> a processingComplete was emitted for it
    completeCount,    \* pdfId -> number of markPDFComplete + processingComplete so far
    notified,         \* submission -> what has been emitted for its units so far
    lateCalls,        \* pdfId -> oracle calls abandoned by the 120 s timer, still in flight
    planner,          \* one run of the chunk planner: its input text and its plan
    normalizer,       \* one run of parseChunkResponse: its input text and its result
    worker,           \* one run of processChunkWithAI: its inputs and its result
    store,            \* a DatabaseManager used on its own: one document's records
    sync              \* one share session of P2PSyncManager: sender, channel, receiver

\* The functions that are checked on their own (the planner, the response
\* normalizer, the extraction worker, the database's question store) are run
\* on their own inputs; the pipeline leaves these runs alone and they leave
\* the pipeline alone.
pureVars == <<planner, normalizer, worker, store, sync>>

pipelineVars == <<pdfs, questions, processingQueue, isProcessing,
                  abortController, aborted, lastRequestAge, sub, loops,
                  emitted, oracleStart, sinceDrainCall, cancels,
                  cancelledSubs, failedUnits, drainCalls, unitCalls, completeNotified,
                  completeCount, notified, lateCalls>>

NoRun == [pc |-> "idle"]

vars == <<pdfs, questions, processingQueue, isProcessing, abortController,
          aborted, lastRequestAge, sub, loops, emitted, oracleStart,
          sinceDrainCall, cancels, cancelledSubs, failedUnits, drainCalls, unitCalls,
          completeNotified, completeCount, notified, lateCalls, planner, normalizer, worker,
          store, sync>>

NoCall == [drained |-> FALSE, sub |-> 0, batchNumber |-> 0, gap |-> Never]

\* ------------------------------------------------------------ small helpers
Max(a, b) == IF a >= b THEN a ELSE b
Min(a, b) == IF a <= b THEN a ELSE b

\* this.abortController?.signal.aborted
Aborted == abortController # 0 /\ abortController \in aborted

\* A notification passed to emit(); stale marks one emitted for a unit whose
\* oracle call was in flight when cancelProcessing ran.
Ev(type, p, b, err, stale) ==
    [type |-> type, pdfId |-> p, batchNumber |-> b, hasErrors |-> err,
     stale |-> stale]

\* One more oracle call (generateQuestionsFromText) issued for unit b of
\* submission i.
Called(i, b) == [unitCalls EXCEPT ![i][b] = @ + 1]

\* The notifications emitted so far for the units of one submission:
\* firstBatchReady seen, the batchNumber of the latest batchCompleted and how
\* many there were, processingComplete seen from the unit paths (the fallback
\* verification names a document, not a submission).
NoneNotified == [first |-> FALSE, last |-> 0, count |-> 0, complete |-> FALSE]

\* this.emit("firstBatchReady", ...) for submission i
NotifyFirst(i) == [notified EXCEPT ![i].first = TRUE]

\* this.emit("batchCompleted", { batchNumber: b, ... }) for a unit of submission i
NotifyBatch(i, b) == [notified EXCEPT ![i].last = b, ![i].count = @ + 1]

\* this.emit("processingComplete", ...) after the last unit of submission i
NotifyComplete(i) == [notified EXCEPT ![i].complete = TRUE]

\* ------------------------------------------------------------ DatabaseManager
\* storePDF: put() of a fresh record, replacing any record of the same id.
StorePDF(p, total) ==
    [exists |-> TRUE, isComplete |-> FALSE, processingStatus |-> "processing",
     batchCount |-> IF total = 0 THEN 1 ELSE total, completedBatches |-> 0,
     totalQuestions |-> 0]

\* updatePDFProgress: completedBatches = Math.max(completedBatches, completedBatch)
UpdatePDFProgress(pdf, completedBatch) ==
    [pdf EXCEPT !.completedBatches = Max(pdf.completedBatches, completedBatch)]

\* completePDFProcessing / markPDFComplete
MarkPDFComplete(pdf) ==
    [pdf EXCEPT !.isComplete = TRUE, !.processingStatus = "complete"]

\* storeQuestions: the records built for `count` AI questions of one batch.
QuestionRecords(count, batchNumber) ==
    {[questionId |-> (batchNumber - 1) * 1000 + k, batchNumber |-> batchNumber] :
        k \in 1..count}

PutQuestionsMut(qs, new) == qs \cup new

\* storeQuestions: put() replaces the record with the same primary key.
PutQuestions(qs, new) ==
    {q \in qs : \A n \in new : n.questionId # q.questionId} \cup new

\* updatePDFQuestionCount
UpdatePDFQuestionCount(pdf, totalCount) ==
    [pdf EXCEPT !.totalQuestions = totalCount]

\* verifyProcessingCompletion: [...new Set(storedQuestions.map(q => q.batchNumber))].length
BatchesProcessed(qs) == Cardinality({q.batchNumber : q \in qs})

\* ------------------------------------------------------------------- Init
IdleSub == [pc |-> "idle", pdfId |-> "none", total |-> 0, outcome |-> "none",
            fromCache |-> FALSE, result |-> {}, sawComplete |-> FALSE,
            calls |-> 0, enqueued |-> 0, wrote |-> FALSE, stale |-> FALSE]
OffLoop == [pc |-> "off", item |-> NoItem, waitFor |-> 0, elapsed |-> 0,
            hasErrors |-> FALSE, stale |-> FALSE, snapshot |-> {}]

\* The BatchProcessor after construction, on empty stores.
PipelineInit ==
    /\ pdfs = [p \in PdfIds |-> NoPDF]
    /\ questions = [p \in PdfIds |-> {}]
    /\ processingQueue = <<>>
    /\ isProcessing = FALSE
    /\ abortController = 0
    /\ aborted = {}
    /\ lastRequestAge = Never
    /\ sub = [i \in Subs |-> IdleSub]
    /\ loops = [l \in LoopIds |-> OffLoop]
    /\ emitted = <<>>
    /\ oracleStart = NoCall
    /\ sinceDrainCall = Never
    /\ cancels = 0
    /\ cancelledSubs = {}
    /\ failedUnits = [p \in PdfIds |-> FALSE]
    /\ drainCalls = 0
    /\ unitCalls = [i \in Subs |-> [b \in 1..MaxBatches |-> 0]]
    /\ completeNotified = [p \in PdfIds |-> FALSE]
    /\ completeCount = [p \in PdfIds |-> 0]
    /\ notified = [i \in Subs |-> NoneNotified]
    /\ lateCalls = [p \in PdfIds |-> 0]

Init ==
    /\ PipelineInit
    /\ planner = NoRun
    /\ normalizer = NoRun
    /\ worker = NoRun
    /\ store = NoRun
    /\ sync = NoRun

\* ---------------------------------------------------------------- helpers
\* The lowest processQueue slot not running.
FreeLoop == CHOOSE l \in LoopIds :
                /\ loops[l].pc = "off"
                /\ \A k \in LoopIds : loops[k].pc = "off" => l <= k

\* queueRemainingBatches starting at chunk 1: the first chunk is queued again.
RemainingItemsMut(i, p, total) ==
    [k \in 1..total |->
        [pdfId |-> p, batchNumber |-> k, totalBatches |-> total, sub |-> i]]

\* The items queueRemainingBatches pushes for chunks 2..total of submission i.
RemainingItems(i, p, total) ==
    [k \in 1..(total - 1) |->
        [pdfId |-> p, batchNumber |-> k + 1, totalBatches |-> total, sub |-> i]]

\* ------------------------------------------------------------- processQueue
\* enforceRateLimit, synchronous part: must this call wait?
RateLimited(age) == age # Never /\ age < rateLimitDelay

\* The while test of processQueue.
LoopTestMut(q) == Len(q) > 1 /\ ~Aborted

LoopTest(q) == q # <<>> /\ ~Aborted

\* item.chunk.batchNumber === item.totalBatches
IsLastBatch(item) == item.batchNumber = item.totalBatches

\* The variables only the head of the loop changes, for the steps that end
\* in an await inside the loop body.
StayInBody ==
    /\ oracleStart' = NoCall
    /\ UNCHANGED <<processingQueue, isProcessing, lastRequestAge,
                   sinceDrainCall, drainCalls, unitCalls>>

\* One pass over the head of the while loop of processQueue run by loop l on
\* queue q (isProcessing ip, lastRequestAge lra, notifications so far ev).
\* The test holds: shift(), then enforceRateLimit either awaits its timer, or
\* sets lastRequestTime and returns, and processChunkWithAI issues the oracle
\* call in the same task (the signal was just tested).  The test fails: the
\* loop is left, isProcessing = false, then processingCancelled is emitted or
\* verifyProcessingCompletion starts (it returns at once on a non-empty
\* queue, else awaits getAllActivePDFs).
Iterate(l, q, ip, lra, ev) ==
    IF LoopTest(q)
    THEN /\ processingQueue' = Tail(q)
         /\ isProcessing' = ip
         /\ emitted' = ev
         /\ IF RateLimited(lra)
            THEN /\ loops' = [loops EXCEPT ![l] =
                        [OffLoop EXCEPT !.pc = "rateWait", !.item = Head(q),
                                        !.waitFor = rateLimitDelay - lra]]
                 /\ lastRequestAge' = lra
                 /\ oracleStart' = NoCall
                 /\ UNCHANGED <<sinceDrainCall, drainCalls, unitCalls>>
            ELSE /\ loops' = [loops EXCEPT ![l] =
                        [OffLoop EXCEPT !.pc = "inflight", !.item = Head(q)]]
                 /\ lastRequestAge' = 0
                 /\ oracleStart' = [drained |-> TRUE, sub |-> Head(q).sub,
                                    batchNumber |-> Head(q).batchNumber,
                                    gap |-> sinceDrainCall]
                 /\ sinceDrainCall' = 0
                 /\ drainCalls' = drainCalls + 1
                 /\ unitCalls' = Called(Head(q).sub, Head(q).batchNumber)
    ELSE /\ processingQueue' = q
         /\ isProcessing' = FALSE
         /\ lastRequestAge' = lra
         /\ loops' = [loops EXCEPT ![l] =
                IF Aborted
                THEN OffLoop
                ELSE [OffLoop EXCEPT !.pc = IF q = <<>> THEN "verify" ELSE "off"]]
         /\ emitted' = IF Aborted
                       THEN Append(ev, Ev("processingCancelled", "none", 0, FALSE, FALSE))
                       ELSE ev
         /\ oracleStart' = NoCall
         /\ UNCHANGED <<sinceDrainCall, drainCalls, unitCalls>>

\* The timer of enforceRateLimit fires: lastRequestTime is set to the `now`
\* read before the wait, and processChunkWithAI starts: it returns null when
\* the signal is aborted (the "no questions generated" branch follows), else
\* it issues the oracle call.
LoopWake(l) ==
    LET me == loops[l]
    IN /\ me.pc = "rateWait"
       /\ me.elapsed >= me.waitFor
       /\ IF Aborted
          THEN IF IsLastBatch(me.item)
               THEN /\ loops' = [loops EXCEPT ![l].pc = "mark"]
                    /\ lastRequestAge' = me.elapsed
                    /\ emitted' = <<>>
                    /\ oracleStart' = NoCall
                    /\ UNCHANGED <<processingQueue, isProcessing,
                                   sinceDrainCall, drainCalls, unitCalls>>
               ELSE Iterate(l, processingQueue, isProcessing, me.elapsed, <<>>)
          ELSE /\ loops' = [loops EXCEPT ![l].pc = "inflight", ![l].elapsed = 0]
               /\ lastRequestAge' = me.elapsed
               /\ oracleStart' = [drained |-> TRUE, sub |-> me.item.sub,
                                  batchNumber |-> me.item.batchNumber,
                                  gap |-> sinceDrainCall]
               /\ sinceDrainCall' = 0
               /\ drainCalls' = drainCalls + 1
               /\ unitCalls' = Called(me.item.sub, me.item.batchNumber)
               /\ emitted' = <<>>
               /\ UNCHANGED <<processingQueue, isProcessing>>
       /\ UNCHANGED <<pdfs, questions, abortController, aborted, sub,
                      cancels, cancelledSubs, failedUnits, completeNotified,
                      completeCount, notified, lateCalls, pureVars>>

\* storeQuestions(pdfId, questions, batchNumber) followed by its
\* getQuestionCount and updatePDFQuestionCount.
StoreQuestions(p, count, batchNumber) ==
    LET qs == PutQuestions(questions[p], QuestionRecords(count, batchNumber))
    IN /\ questions' = [questions EXCEPT ![p] = qs]
       /\ pdfs' = [pdfs EXCEPT ![p] =
                IF pdfs[p].exists
                THEN UpdatePDFQuestionCount(pdfs[p], Cardinality(qs))
                ELSE pdfs[p]]

\* The oracle call of a drained unit returns through processChunkWithAI:
\* y > 0 questions, or [] (no questions, or a service error swallowed by its
\* catch).  With questions the loop awaits storeQuestions.
LoopOracleReturn(l, y) ==
    LET me == loops[l]
        p == me.item.pdfId
    IN /\ me.pc = "inflight"
       /\ IF y > 0
          THEN /\ StoreQuestions(p, y, me.item.batchNumber)
               /\ loops' = [loops EXCEPT ![l].pc = "progress"]
               /\ emitted' = <<>>
               /\ StayInBody
               /\ UNCHANGED failedUnits
          ELSE /\ failedUnits' = [failedUnits EXCEPT ![p] = TRUE]
               /\ UNCHANGED <<pdfs, questions>>
               /\ IF IsLastBatch(me.item)
                  THEN /\ loops' = [loops EXCEPT ![l].pc = "mark"]
                       /\ emitted' = <<>>
                       /\ StayInBody
                  ELSE Iterate(l, processingQueue, isProcessing, lastRequestAge, <<>>)
       /\ UNCHANGED <<abortController, aborted, sub, cancels,
                      cancelledSubs, completeNotified,
                      completeCount, notified, lateCalls, pureVars>>

\* Has the 120 s timer of a call that began `elapsed` ago fired?  Ages
\* saturate at rateLimitDelay, which is what the test can tell.
TimeoutDue(elapsed) == elapsed >= Min(batchTimeout, rateLimitDelay)

\* The 120 s timer of Promise.race rejects first: the oracle call stays in
\* flight with nobody waiting for it, and the catch path stores an empty
\* result for the unit (which only recounts the questions).
LoopTimeout(l) ==
    LET me == loops[l]
        p == me.item.pdfId
    IN /\ me.pc = "inflight"
       /\ TimeoutDue(me.elapsed)
       /\ lateCalls' = [lateCalls EXCEPT ![p] = @ + 1]
       /\ failedUnits' = [failedUnits EXCEPT ![p] = TRUE]
       /\ StoreQuestions(p, 0, me.item.batchNumber)
       /\ IF IsLastBatch(me.item)
          THEN /\ loops' = [loops EXCEPT ![l].pc = "mark", ![l].hasErrors = TRUE]
               /\ emitted' = <<>>
               /\ StayInBody
          ELSE Iterate(l, processingQueue, isProcessing, lastRequestAge, <<>>)
       /\ UNCHANGED <<abortController, aborted, sub, cancels,
                      cancelledSubs, completeNotified,
                      completeCount, notified, pureVars>>

\* updatePDFProgress(pdfId, batchNumber), getQuestions, emit batchCompleted.
LoopProgress(l) ==
    LET me == loops[l]
        p == me.item.pdfId
        ev == <<Ev("batchCompleted", p, me.item.batchNumber, FALSE, me.stale)>>
    IN /\ me.pc = "progress"
       /\ pdfs[p].exists
       /\ pdfs' = [pdfs EXCEPT ![p] = UpdatePDFProgress(pdfs[p], me.item.batchNumber)]
       /\ notified' = NotifyBatch(me.item.sub, me.item.batchNumber)
       /\ IF IsLastBatch(me.item)
          THEN /\ loops' = [loops EXCEPT ![l].pc = "mark"]
               /\ emitted' = ev
               /\ StayInBody
          ELSE Iterate(l, processingQueue, isProcessing, lastRequestAge, ev)
       /\ UNCHANGED <<questions, abortController, aborted, sub, cancels,
                      cancelledSubs, failedUnits, completeNotified,
                      completeCount, lateCalls, pureVars>>

\* The last planned unit: markPDFComplete resolves, getQuestions is awaited.
LoopMark(l) ==
    LET me == loops[l]
        p == me.item.pdfId
    IN /\ me.pc = "mark"
       /\ pdfs[p].exists
       /\ pdfs' = [pdfs EXCEPT ![p] = MarkPDFComplete(pdfs[p])]
       /\ completeCount' = [completeCount EXCEPT ![p] = @ + 1]
       /\ loops' = [loops EXCEPT ![l].pc = "markRead"]
       /\ emitted' = <<>>
       /\ StayInBody
       /\ UNCHANGED <<questions, abortController, aborted, sub, cancels,
                      cancelledSubs, failedUnits, completeNotified, notified,
                      lateCalls, pureVars>>

\* The last planned unit: getQuestions resolves, processingComplete is
\* emitted (hasErrors only on the catch path) and the loop goes round.
LoopMarkEmit(l) ==
    LET me == loops[l]
        p == me.item.pdfId
    IN /\ me.pc = "markRead"
       /\ completeNotified' = [completeNotified EXCEPT ![p] = TRUE]
       /\ notified' = NotifyComplete(me.item.sub)
       /\ Iterate(l, processingQueue, isProcessing, lastRequestAge,
                  <<Ev("processingComplete", p, me.item.batchNumber,
                       me.hasErrors, me.stale)>>)
       /\ UNCHANGED <<pdfs, questions, abortController, aborted, sub, cancels,
                      cancelledSubs, failedUnits, completeCount, lateCalls,
                      pureVars>>

\* verifyProcessingCompletion: getAllActivePDFs resolves with the records
\* of the documents that are not complete (the pass keeps these copies).
LoopVerify(l) ==
    LET active == {[pdfId |-> p, batchCount |-> pdfs[p].batchCount] :
                     p \in {d \in PdfIds : pdfs[d].exists /\ ~pdfs[d].isComplete}}
    IN /\ loops[l].pc = "verify"
       /\ loops' = [loops EXCEPT ![l] =
                IF active = {} THEN OffLoop
                ELSE [OffLoop EXCEPT !.pc = "verifyCheck", !.snapshot = active]]
       /\ emitted' = <<>>
       /\ StayInBody
       /\ UNCHANGED <<pdfs, questions, abortController, aborted, sub,
                      cancels, cancelledSubs, failedUnits, completeNotified,
                      completeCount, notified, lateCalls, pureVars>>

\* verifyProcessingCompletion, one document of the list: getQuestions, count
\* the distinct batch numbers, markPDFComplete and emit processingComplete
\* when they are at least the batchCount of the copy read by
\* getAllActivePDFs.
LoopVerifyCheck(l, p) ==
    LET me == loops[l]
        mine == {s \in me.snapshot : s.pdfId = p}
        rest == me.snapshot \ mine
        pdf == CHOOSE s \in mine : TRUE
        all == pdfs[p].exists /\ BatchesProcessed(questions[p]) >= pdf.batchCount
    IN /\ me.pc = "verifyCheck"
       /\ mine # {}
       /\ loops' = [loops EXCEPT ![l] =
                IF rest = {} THEN OffLoop ELSE [me EXCEPT !.snapshot = rest]]
       /\ pdfs' = [pdfs EXCEPT ![p] = IF all THEN MarkPDFComplete(pdfs[p]) ELSE pdfs[p]]
       /\ emitted' = IF all
                     THEN <<Ev("processingComplete", p, 0, FALSE, FALSE)>>
                     ELSE <<>>
       /\ completeNotified' = [completeNotified EXCEPT ![p] = @ \/ all]
       /\ completeCount' = [completeCount EXCEPT ![p] = IF all THEN @ + 1 ELSE @]
       /\ UNCHANGED notified
       /\ StayInBody
       /\ UNCHANGED <<questions, abortController, aborted, sub, cancels,
                      cancelledSubs, failedUnits, lateCalls, pureVars>>

\* ------------------------------------------------------- processPDFInBatches
\* The cache test: existingPDF && existingPDF.isComplete
CacheHitMut(pdf) == FALSE

CacheHit(pdf) == pdf.exists /\ pdf.isComplete

\* Entry: a new AbortController replaces the current one, then the
\* fingerprint is computed.  The input is content with fingerprint p that
\* the planner cuts into n chunks; a page-image sequence is fingerprinted by
\* file name and size only and has one chunk per page, so the same
\* fingerprint can arrive with different chunk counts.  Invocations are
\* numbered in the order they start.
SubmitStart(i, p, n) ==
    /\ sub[i].pc = "idle"
    /\ \A k \in Subs : k < i => sub[k].pc # "idle"
    /\ abortController' = i
    /\ sub' = [sub EXCEPT ![i].pc = "lookup", ![i].pdfId = p,
                          ![i].total = n]
    /\ emitted' = <<>>
    /\ oracleStart' = NoCall
    /\ UNCHANGED <<pdfs, questions, processingQueue, isProcessing, aborted,
                   lastRequestAge, loops, sinceDrainCall, cancels,
                   cancelledSubs, failedUnits, drainCalls, unitCalls, completeNotified,
                      completeCount, notified, lateCalls, pureVars>>

\* getPDF resolves: a complete stored document is a cache hit, anything else
\* is planned into chunks.
SubmitLookup(i) ==
    LET p == sub[i].pdfId
        existingPDF == pdfs[p]
    IN /\ sub[i].pc = "lookup"
       /\ sub' = [sub EXCEPT
                ![i].pc = IF CacheHit(existingPDF) THEN "cacheRead" ELSE "store",
                ![i].sawComplete = existingPDF.exists /\ existingPDF.isComplete]
       /\ emitted' = <<>>
       /\ oracleStart' = NoCall
       /\ UNCHANGED <<pdfs, questions, processingQueue, isProcessing,
                      abortController, aborted, lastRequestAge, loops,
                      sinceDrainCall, cancels, cancelledSubs, failedUnits,
                      drainCalls, unitCalls, completeNotified,
                      completeCount, notified, lateCalls, pureVars>>

\* Cache hit: getQuestions resolves, cacheHit is emitted and the stored
\* records are returned with fromCache: true.
SubmitCacheRead(i) ==
    LET p == sub[i].pdfId
    IN /\ sub[i].pc = "cacheRead"
       /\ sub' = [sub EXCEPT ![i].pc = "done", ![i].outcome = "cache",
                             ![i].fromCache = TRUE, ![i].result = questions[p]]
       /\ emitted' = <<Ev("cacheHit", p, 0, FALSE, FALSE)>>
       /\ oracleStart' = NoCall
       /\ UNCHANGED <<pdfs, questions, processingQueue, isProcessing,
                      abortController, aborted, lastRequestAge, loops,
                      sinceDrainCall, cancels, cancelledSubs, failedUnits,
                      drainCalls, unitCalls, completeNotified,
                      completeCount, notified, lateCalls, pureVars>>

\* Cache miss: storePDF writes the fresh document record, then
\* processChunkWithAI starts on the first chunk: null when the signal is
\* aborted (submit then returns null), else the oracle call is issued.
SubmitStorePDF(i) ==
    LET p == sub[i].pdfId
    IN /\ sub[i].pc = "store"
       /\ pdfs' = [pdfs EXCEPT ![p] = StorePDF(p, sub[i].total)]
       /\ IF Aborted
          THEN /\ sub' = [sub EXCEPT ![i].pc = "done", ![i].outcome = "cancelled"]
               /\ oracleStart' = NoCall
               /\ UNCHANGED unitCalls
          ELSE /\ sub' = [sub EXCEPT ![i].pc = "firstAI", ![i].calls = @ + 1]
               /\ oracleStart' = [drained |-> FALSE, sub |-> i,
                                  batchNumber |-> 1, gap |-> Never]
               /\ unitCalls' = Called(i, 1)
       /\ emitted' = <<>>
       /\ UNCHANGED <<questions, processingQueue, isProcessing,
                      abortController, aborted, lastRequestAge, loops,
                      sinceDrainCall, cancels, cancelledSubs, failedUnits,
                      drainCalls, completeNotified,
                      completeCount, notified, lateCalls, pureVars>>

\* The test on the first chunk's result:
\* firstBatchQuestions && firstBatchQuestions.length > 0
HasQuestionsMut(y) == y >= 0

HasQuestions(y) == y > 0

\* The first chunk's oracle call returns y questions (0: none, or an error
\* swallowed by processChunkWithAI).  Aborted: return null.  y > 0: await
\* storeQuestions.  y = 0: throw, caught, processingError emitted, rethrown.
SubmitFirstReturn(i, y) ==
    LET p == sub[i].pdfId
    IN /\ sub[i].pc = "firstAI"
       /\ oracleStart' = NoCall
       /\ IF Aborted
          THEN /\ sub' = [sub EXCEPT ![i].pc = "done", ![i].outcome = "cancelled"]
               /\ emitted' = <<>>
               /\ UNCHANGED <<pdfs, questions>>
          ELSE IF HasQuestions(y)
          THEN /\ StoreQuestions(p, y, 1)
               /\ sub' = [sub EXCEPT ![i].pc = "firstProgress", ![i].wrote = TRUE,
                                     ![i].result = QuestionRecords(y, 1)]
               /\ emitted' = <<>>
          ELSE /\ sub' = [sub EXCEPT ![i].pc = "done", ![i].outcome = "error"]
               /\ emitted' = <<Ev("processingError", p, 1, FALSE, sub[i].stale)>>
               /\ UNCHANGED <<pdfs, questions>>
       /\ UNCHANGED <<processingQueue, isProcessing, abortController, aborted,
                      lastRequestAge, loops, sinceDrainCall, cancels,
                      cancelledSubs, failedUnits, drainCalls, unitCalls, completeNotified,
                      completeCount, notified, lateCalls, pureVars>>

\* The test that hands chunks to the background queue: chunks.length > 1
HasRemainingMut(total) == total >= 1

HasRemaining(total) == total > 1

\* updatePDFProgress(pdfId, 1), emit firstBatchReady, then either
\* queueRemainingBatches (push chunks 2..n; processQueue starts when
\* !isProcessing and runs to its first await) and return, or await
\* markPDFComplete for a one-chunk plan.
SubmitFirstProgress(i) ==
    LET p == sub[i].pdfId
        total == sub[i].total
        ev == <<Ev("firstBatchReady", p, 1, FALSE, sub[i].stale)>>
        q == processingQueue \o RemainingItems(i, p, total)
    IN /\ sub[i].pc = "firstProgress"
       /\ pdfs[p].exists
       /\ pdfs' = [pdfs EXCEPT ![p] = UpdatePDFProgress(pdfs[p], 1)]
       /\ notified' = NotifyFirst(i)
       /\ IF HasRemaining(total)
          THEN /\ sub' = [sub EXCEPT ![i].pc = "done", ![i].outcome = "first",
                                     ![i].enqueued = total - 1]
               /\ IF ~isProcessing
                  THEN Iterate(FreeLoop, q, TRUE, lastRequestAge, ev)
                  ELSE /\ processingQueue' = q
                       /\ emitted' = ev
                       /\ oracleStart' = NoCall
                       /\ UNCHANGED <<isProcessing, lastRequestAge, loops,
                                      sinceDrainCall, drainCalls, unitCalls>>
          ELSE /\ sub' = [sub EXCEPT ![i].pc = "firstMark"]
               /\ emitted' = ev
               /\ StayInBody
               /\ UNCHANGED loops
       /\ UNCHANGED <<questions, abortController, aborted, cancels,
                      cancelledSubs, failedUnits, completeNotified,
                      completeCount, lateCalls, pureVars>>

\* One-chunk plan: markPDFComplete, emit processingComplete, return.
SubmitFirstMark(i) ==
    LET p == sub[i].pdfId
    IN /\ sub[i].pc = "firstMark"
       /\ pdfs[p].exists
       /\ pdfs' = [pdfs EXCEPT ![p] = MarkPDFComplete(pdfs[p])]
       /\ sub' = [sub EXCEPT ![i].pc = "done", ![i].outcome = "first"]
       /\ emitted' = <<Ev("processingComplete", p, 1, FALSE, sub[i].stale)>>
       /\ completeNotified' = [completeNotified EXCEPT ![p] = TRUE]
       /\ completeCount' = [completeCount EXCEPT ![p] = @ + 1]
       /\ notified' = NotifyComplete(i)
       /\ oracleStart' = NoCall
       /\ UNCHANGED <<questions, processingQueue, isProcessing,
                      abortController, aborted, lastRequestAge, loops,
                      sinceDrainCall, cancels, cancelledSubs, failedUnits,
                      drainCalls, unitCalls, lateCalls, pureVars>>

\* cancelProcessing that also drops the stored questions.
CancelProcessingMut ==
    /\ cancels < MaxCancels
    /\ aborted' = IF abortController # 0 THEN aborted \cup {abortController} ELSE aborted
    /\ processingQueue' = <<>>
    /\ isProcessing' = FALSE
    /\ emitted' = <<Ev("processingCancelled", "none", 0, FALSE, FALSE)>>
    /\ cancels' = cancels + 1
    /\ cancelledSubs' = cancelledSubs \cup {i \in Subs : sub[i].pc # "idle"}
    /\ loops' = [l \in LoopIds |->
            IF loops[l].pc = "inflight"
            THEN [loops[l] EXCEPT !.stale = TRUE] ELSE loops[l]]
    /\ sub' = [i \in Subs |->
            IF sub[i].pc = "firstAI"
            THEN [sub[i] EXCEPT !.stale = TRUE] ELSE sub[i]]
    /\ oracleStart' = NoCall
    /\ questions' = [p \in PdfIds |-> {}]
    /\ UNCHANGED <<pdfs, abortController, lastRequestAge,
                   sinceDrainCall, failedUnits, drainCalls, unitCalls, completeNotified,
                      completeCount, notified, lateCalls, pureVars>>

\* ---------------------------------------------------------- cancelProcessing
\* abort() on the current controller, the queue cleared, isProcessing reset,
\* processingCancelled emitted.
CancelProcessing ==
    /\ cancels < MaxCancels
    /\ aborted' = IF abortController # 0 THEN aborted \cup {abortController} ELSE aborted
    /\ processingQueue' = <<>>
    /\ isProcessing' = FALSE
    /\ emitted' = <<Ev("processingCancelled", "none", 0, FALSE, FALSE)>>
    /\ cancels' = cancels + 1
    /\ cancelledSubs' = cancelledSubs \cup {i \in Subs : sub[i].pc # "idle"}
    /\ loops' = [l \in LoopIds |->
            IF loops[l].pc = "inflight"
            THEN [loops[l] EXCEPT !.stale = TRUE] ELSE loops[l]]
    /\ sub' = [i \in Subs |->
            IF sub[i].pc = "firstAI"
            THEN [sub[i] EXCEPT !.stale = TRUE] ELSE sub[i]]
    /\ oracleStart' = NoCall
    /\ UNCHANGED <<pdfs, questions, abortController, lastRequestAge,
                   sinceDrainCall, failedUnits, drainCalls, unitCalls, completeNotified,
                      completeCount, notified, lateCalls, pureVars>>

\* A late return whose records are stored as those of the last unit.
LateReturnMut(p) ==
    /\ lateCalls[p] > 0
    /\ lateCalls' = [lateCalls EXCEPT ![p] = @ - 1]
    /\ StoreQuestions(p, 1, MaxBatches)
    /\ emitted' = <<>>
    /\ oracleStart' = NoCall
    /\ UNCHANGED <<processingQueue, isProcessing,
                   abortController, aborted, lastRequestAge, sub, loops,
                   sinceDrainCall, cancels, cancelledSubs, failedUnits,
                   drainCalls, unitCalls, completeNotified, completeCount,
                   notified, pureVars>>

\* An oracle call that the 120 s timer abandoned returns at last: Promise.race
\* has settled, so the value processChunkWithAI returns is dropped.
LateReturn(p) ==
    /\ lateCalls[p] > 0
    /\ lateCalls' = [lateCalls EXCEPT ![p] = @ - 1]
    /\ emitted' = <<>>
    /\ oracleStart' = NoCall
    /\ UNCHANGED <<pdfs, questions, processingQueue, isProcessing,
                   abortController, aborted, lastRequestAge, sub, loops,
                   sinceDrainCall, cancels, cancelledSubs, failedUnits,
                   drainCalls, unitCalls, completeNotified, completeCount, notified, pureVars>>

\* --------------------------------------------------------------------- time
Age(a) == IF a = Never THEN Never ELSE Min(a + TickMs, rateLimitDelay)

\* TickMs milliseconds pass.
Tick ==
    /\ lastRequestAge' = Age(lastRequestAge)
    /\ sinceDrainCall' = Age(sinceDrainCall)
    /\ loops' = [l \in LoopIds |->
            IF loops[l].pc \in {"rateWait", "inflight"}
            THEN [loops[l] EXCEPT !.elapsed = Min(@ + TickMs, rateLimitDelay)]
            ELSE loops[l]]
    /\ UNCHANGED <<pdfs, questions, processingQueue, isProcessing,
                   abortController, aborted, sub, emitted, oracleStart,
                   cancels, cancelledSubs, failedUnits, drainCalls, unitCalls,
                   completeNotified,
                      completeCount, notified, lateCalls, pureVars>>

\* --------------------------------------------------------------------- Next
Yields == 0..MaxYield

Next ==
    \/ \E i \in Subs, p \in PdfIds, n \in 1..MaxBatches : SubmitStart(i, p, n)
    \/ \E i \in Subs : SubmitLookup(i)
    \/ \E i \in Subs : SubmitCacheRead(i)
    \/ \E i \in Subs : SubmitStorePDF(i)
    \/ \E i \in Subs, y \in Yields : SubmitFirstReturn(i, y)
    \/ \E i \in Subs : SubmitFirstProgress(i)
    \/ \E i \in Subs : SubmitFirstMark(i)
    \/ \E l \in LoopIds : LoopWake(l)
    \/ \E l \in LoopIds, y \in Yields : LoopOracleReturn(l, y)
    \/ \E l \in LoopIds : LoopTimeout(l)
    \/ \E l \in LoopIds : LoopProgress(l)
    \/ \E l \in LoopIds : LoopMark(l)
    \/ \E l \in LoopIds : LoopMarkEmit(l)
    \/ \E l \in LoopIds : LoopVerify(l)
    \/ \E l \in LoopIds, p \in PdfIds : LoopVerifyCheck(l, p)
    \/ \E p \in PdfIds : LateReturn(p)
    \/ CancelProcessing
    \/ Tick

Spec == Init /\ [][Next]_vars


\* ---------------------------------------------------------------------
\* The chunk planner (createTextChunks), run on one text.
\* ---------------------------------------------------------------------

\* Largest number of whitespace-separated tokens of a planned text.
MaxWords == 100

\* Match counts a heuristic pattern is given on a planned text.
CountSet == {0, 11, 21, 41, 61, 81}

\* Lengths (in characters) a planned text is given: the empty text and the
\* lengths around the threshold of createTextChunks.
LengthSet == {0, 19999, 20000, 20001}

\* A text as the planner sees it: textContent.length, the tokens of
\* textContent.split(/\s+/) (numbered 1..words, in order), the number of
\* matches of each of the four questionPatterns and of the two mcMarkers.
\* A match of any of these patterns ends in its own token, and no line
\* starts with both markers, so the counts are bounded by the token count;
\* the empty text has the single token "".
Texts ==
    { t \in [length : LengthSet, words : 1..MaxWords,
             patterns : {<<a, b, 0, 0>> : a \in CountSet, b \in CountSet},
             markers : {<<0, 0>>, <<44, 0>>, <<40, 44>>}] :
        /\ \A k \in 1..4 : t.patterns[k] <= t.words
        /\ t.markers[1] + t.markers[2] <= t.words
        /\ (t.length > 0) => (t.length >= 2 * t.words - 1)
        /\ (t.length = 0) => (t.words = 1 /\ t.patterns = <<0, 0, 0, 0>>) }

CeilDiv(a, b) == (a + b - 1) \div b

\* estimateQuestionCount(textContent)
estimateQuestionCount(t) ==
    LET maxCount == Max(Max(t.patterns[1], t.patterns[2]),
                        Max(t.patterns[3], t.patterns[4]))
        optionCount == t.markers[1] + t.markers[2]
        mcQuestionEstimate == optionCount \div 4
    IN  Min(150, Max(10, Max(maxCount, mcQuestionEstimate)))

SliceMut(W, from, to) ==
    [k \in 1..Max(0, Min(to - 1, W) - Min(from, W)) |-> Min(from, W) + k]

\* words.slice(from, to): the tokens at the 0-based positions from..to-1.
Slice(W, from, to) ==
    [k \in 1..Max(0, Min(to, W) - Min(from, W)) |-> Min(from, W) + k]

\* remainingWords < wordsPerChunk * 0.3
IsNearEnd(remainingWords, wordsPerChunk) ==
    10 * remainingWords < 3 * wordsPerChunk

HasLeftoverMut(i, wordsPerChunk, W) == FALSE

\* i + wordsPerChunk < words.length
HasLeftover(i, wordsPerChunk, W) == i + wordsPerChunk < W

TargetBatchesMut(estimatedQuestions) ==
    Min(5, CeilDiv(estimatedQuestions, 20))

\* targetBatches of createMultipleBatches, with questionsPerBatch = 20.
TargetBatches(estimatedQuestions) ==
    Min(5, Max(2, CeilDiv(estimatedQuestions, 20)))

\* One chunk pushed by the loop of createMultipleBatches. content is the
\* token sequence that chunkContent joins with single spaces.
Chunk(chunks, content) ==
    [content |-> content, batchNumber |-> Len(chunks) + 1,
     isFirstBatch |-> (Len(chunks) = 0), wordsCount |-> Len(content)]

\* The for loop of createMultipleBatches from position i with the chunks
\* pushed so far.
RECURSIVE BatchLoop(_, _, _, _, _)
BatchLoop(W, wordsPerChunk, targetBatches, i, chunks) ==
    IF ~(i < W) THEN chunks
    ELSE
      LET chunkWords == Slice(W, i, i + wordsPerChunk)
          remainingWords == W - (i + wordsPerChunk)
      IN  IF IsNearEnd(remainingWords, wordsPerChunk) /\ remainingWords > 0
          THEN Append(chunks, Chunk(chunks, Slice(W, i, W)))
          ELSE
            LET pushed == Append(chunks, Chunk(chunks, chunkWords))
                n == Len(pushed)
            IN  IF n >= targetBatches
                THEN IF HasLeftover(i, wordsPerChunk, W)
                     THEN LET rest == Slice(W, i + wordsPerChunk, W)
                          IN  [pushed EXCEPT
                                 ![n].content = @ \o rest,
                                 ![n].wordsCount = @ + Len(rest)]
                     ELSE pushed
                ELSE BatchLoop(W, wordsPerChunk, targetBatches,
                               i + wordsPerChunk, pushed)

\* createMultipleBatches(textContent, estimatedQuestions)
createMultipleBatches(t, estimatedQuestions) ==
    LET targetBatches == TargetBatches(estimatedQuestions)
        wordsPerChunk == t.words \div targetBatches
    IN  BatchLoop(t.words, wordsPerChunk, targetBatches, 0, <<>>)

\* createTextChunks(textContent). The single chunk holds textContent
\* itself, that is every token of it.
createTextChunks(t) ==
    LET estimatedQuestions == estimateQuestionCount(t)
    IN  IF estimatedQuestions > 20 \/ t.length > 20000
        THEN createMultipleBatches(t, estimatedQuestions)
        ELSE IF t.length < 20000 /\ estimatedQuestions <= 10
             THEN << [content |-> Slice(t.words, 0, t.words),
                      batchNumber |-> 1, isFirstBatch |-> TRUE,
                      wordsCount |-> t.words] >>
             ELSE createMultipleBatches(t, estimatedQuestions)

\* A planner run starts with a text to plan.
PlanInit ==
    /\ PipelineInit
    /\ normalizer = NoRun
    /\ worker = NoRun
    /\ store = NoRun
    /\ sync = NoRun
    /\ planner \in {[pc |-> "text", text |-> t] : t \in Texts}

\* processPDFInBatches calls createTextChunks(textContent).
PlanText ==
    /\ planner.pc = "text"
    /\ planner' = [pc |-> "planned", text |-> planner.text,
                   chunks |-> createTextChunks(planner.text)]
    /\ UNCHANGED <<pipelineVars, normalizer, worker, store, sync>>

PlanNext == PlanText

PlanSpec == PlanInit /\ [][PlanNext]_vars

\* ---------------------------------------------------------------------
\* The response normalizer (parseChunkResponse), run on one oracle text.
\* ---------------------------------------------------------------------

\* Longest options array of an entry of the oracle's JSON.
MaxOptions == 6

\* Largest correctAnswer the oracle's text is given.
MaxAnswer == 6

\* The letter B as an answer index, and no letter.
LetterB == 1

NoLetter == -1

\* An entry of the parsed array that is an object: whether q.question is
\* truthy, whether q.options is an array and of what length, whether
\* q.correctAnswer is a number and which; when it is not a number,
\* whether it is a letter form ("B", "(b)", "Option B") and of which
\* letter.
ObjectEntries ==
    { [kind |-> "object", question |-> hq, optionsIsArray |-> oa,
       options |-> n, answerIsNumber |-> an, correctAnswer |-> c,
       answerLetter |-> a] :
        hq \in BOOLEAN, oa \in BOOLEAN, n \in 0..MaxOptions,
        an \in BOOLEAN, c \in -1..MaxAnswer, a \in {NoLetter, LetterB} }

NullEntry == [kind |-> "null"]

\* A string, number, boolean or nested array: reading a property of it
\* gives undefined.
ScalarEntry == [kind |-> "scalar"]

Entries ==
    {NullEntry, ScalarEntry} \cup
    { e \in ObjectEntries : /\ (~e.optionsIsArray => e.options = 0)
                            /\ (~e.answerIsNumber => e.correctAnswer = 0)
                            /\ (e.answerIsNumber => e.answerLetter = NoLetter) }

GoodEntry ==
    [kind |-> "object", question |-> TRUE, optionsIsArray |-> TRUE,
     options |-> 4, answerIsNumber |-> TRUE, correctAnswer |-> 1,
     answerLetter |-> NoLetter]

\* The arrays JSON.parse gives: none, one entry of any shape, or two
\* entries of which one may be null.
EntryLists ==
    {<<>>} \cup {<<e>> : e \in Entries}
           \cup {<<a, b>> : a \in {NullEntry, ScalarEntry, GoodEntry},
                            b \in {NullEntry, GoodEntry}}

\* What JSON.parse(jsonText) does on the cleaned text: throw, or give an
\* array. jsonText starts with "[" and ends with "]", so a value that
\* parses is an array.
Parses == {[ok |-> FALSE, entries |-> <<>>]} \cup
          {[ok |-> TRUE, entries |-> es] : es \in EntryLists}

\* The matches of questionPattern in the text, each by the digits of
\* its "correctAnswer".
ObjectMatches ==
    {<<>>} \cup {<<a>> : a \in {0, 3, 4}}
           \cup {<<a, b>> : a \in {0, 4}, b \in {3, 4}}

\* The matches of rawQuestionPattern in the text, each by the number of
\* option chunks optionMatches finds in it and by its answer letter
\* (A..E as 0..4).
RawMatches ==
    {<<>>} \cup {<<[options |-> n, letter |-> c]>> :
                    n \in {0, 3, 4, 5, MaxOptions}, c \in {0, 3, 4}}

NoArrayOptions(es) == \A k \in 1..Len(es) :
    es[k].kind = "object" => ~es[k].optionsIsArray

\* An oracle text as parseChunkResponse sees it:
\*   bracket   "none": no "[";  "unbalanced": no "]" after the first "[";
\*             "balanced": a "]" after the first "[".
\*   complete  the brace scan of an unbalanced text finds a closed object
\*             (lastGoodPos > 0).
\*   json      what JSON.parse gives on the cleaned jsonText.
\* An options array or a match of questionPattern holds "[" before "]",
\* so only balanced texts have them.
OracleTexts ==
    { [bracket |-> "none", complete |-> FALSE,
       json |-> [ok |-> FALSE, entries |-> <<>>],
       objectMatches |-> <<>>, rawMatches |-> r] : r \in RawMatches }
    \cup
    { [bracket |-> "unbalanced", complete |-> FALSE,
       json |-> [ok |-> FALSE, entries |-> <<>>],
       objectMatches |-> <<>>, rawMatches |-> r] : r \in RawMatches }
    \cup
    { [bracket |-> "unbalanced", complete |-> TRUE, json |-> j,
       objectMatches |-> <<>>, rawMatches |-> r] :
         j \in {x \in Parses : NoArrayOptions(x.entries)},
         r \in RawMatches }
    \cup
    { [bracket |-> "balanced", complete |-> FALSE, json |-> j,
       objectMatches |-> o, rawMatches |-> r] :
         j \in Parses, o \in ObjectMatches, r \in RawMatches }

\* A question record by what the contract is about: the length of its
\* options, its correctAnswer and its source property.  No stage of the
\* normalizer sets a source: the records of the JSON stage are the oracle's
\* own objects and the records of the regex stages are built without one.
Question(n, c) == [options |-> n, correctAnswer |-> c, source |-> "none"]

\* storeQuestions: source: question.source || "ai"
StoredSource(question) ==
    IF question.source = "none" THEN "ai" ELSE question.source

\* The first loop of extractQuestionsWithRegex: four options, and the
\* record is pushed only with 0 <= correctIdx <= 3.
RECURSIVE FromObjectMatches(_)
FromObjectMatches(ms) ==
    IF ms = <<>> THEN <<>>
    ELSE LET correctIdx == Head(ms)
         IN  (IF correctIdx >= 0 /\ correctIdx <= 3
              THEN <<Question(4, correctIdx)>> ELSE <<>>)
             \o FromObjectMatches(Tail(ms))

\* The raw-text loop of extractQuestionsWithRegex.
RECURSIVE FromRawMatches(_)
FromRawMatches(ms) ==
    IF ms = <<>> THEN <<>>
    ELSE LET m == Head(ms)
             maxOptions == Min(m.options, 5)
             correctAnswer == m.letter
         IN  (IF /\ m.options >= 4
                 /\ correctAnswer >= 0 /\ correctAnswer <= 4
                 /\ correctAnswer < maxOptions
              THEN <<Question(maxOptions, correctAnswer)>> ELSE <<>>)
             \o FromRawMatches(Tail(ms))

\* extractQuestionsWithRegex(text)
extractQuestionsWithRegex(text) ==
    LET found == FromObjectMatches(text.objectMatches)
    IN  IF Len(found) = 0 THEN FromRawMatches(text.rawMatches)
        ELSE found

PadOptionsMut(n) == n

\* while (q.options.length < 4) q.options.push("Additional option"), or
\* q.options.slice(0, 5).
PadOptions(n) == IF n < 4 THEN 4 ELSE IF n > 5 THEN 5 ELSE n

\* The callback without the reset of the answer after the cut to 5.
CleanEntryMut(q) ==
    IF ~q.question \/ ~q.optionsIsArray \/ ~q.answerIsNumber THEN <<>>
    ELSE IF q.options < 2 THEN <<>>
    ELSE LET fixed == IF q.correctAnswer < 0 \/ q.correctAnswer >= q.options
                      THEN 0 ELSE q.correctAnswer
         IN  <<Question(PadOptions(q.options), fixed)>>

\* The callback of parsed.filter on one object entry: <<>> when the entry
\* is skipped, the cleaned record otherwise.
CleanEntry(q) ==
    IF ~q.question \/ ~q.optionsIsArray \/ ~q.answerIsNumber THEN <<>>
    ELSE IF q.options < 2 THEN <<>>
    ELSE LET fixed == IF q.correctAnswer < 0 \/ q.correctAnswer >= q.options
                      THEN 0 ELSE q.correctAnswer
             capped == IF q.options > 5 /\ fixed >= 5 THEN 0 ELSE fixed
         IN  <<Question(PadOptions(q.options), capped)>>

Returned(qs) == [raised |-> FALSE, questions |-> qs]

Thrown == [raised |-> TRUE, questions |-> <<>>]

\* parsed.filter(...): reading q.question of a null entry throws.
RECURSIVE FilterEntries(_)
FilterEntries(es) ==
    IF es = <<>> THEN Returned(<<>>)
    ELSE IF Head(es).kind = "null" THEN Thrown
    ELSE LET rest == FilterEntries(Tail(es))
             mine == IF Head(es).kind = "object" THEN CleanEntry(Head(es))
                     ELSE <<>>
         IN  IF rest.raised THEN Thrown
             ELSE Returned(mine \o rest.questions)

\* The body of the try of parseChunkResponse.
TryBody(text) ==
    IF text.bracket = "none" THEN Thrown
    ELSE IF text.bracket = "unbalanced" /\ ~text.complete THEN Thrown
    ELSE IF ~text.json.ok THEN Returned(extractQuestionsWithRegex(text))
    ELSE FilterEntries(text.json.entries)

CatchMut(text) == Thrown

\* The catch of parseChunkResponse: log, then the regex fallback.
Catch(text) == Returned(extractQuestionsWithRegex(text))

\* parseChunkResponse(text)
parseChunkResponse(text) ==
    LET body == TryBody(text)
    IN  IF body.raised THEN Catch(text) ELSE body

\* A normalizer run starts with the text of an oracle response.
ParseInit ==
    /\ PipelineInit
    /\ planner = NoRun
    /\ worker = NoRun
    /\ store = NoRun
    /\ sync = NoRun
    /\ normalizer \in {[pc |-> "text", text |-> t] : t \in OracleTexts}

\* generateQuestionsFromText calls parseChunkResponse(text).
ParseText ==
    /\ normalizer.pc = "text"
    /\ normalizer' = [pc |-> "parsed", text |-> normalizer.text,
                      result |-> parseChunkResponse(normalizer.text)]
    /\ UNCHANGED <<pipelineVars, planner, worker, store, sync>>

ParseNext == ParseText

ParseSpec == ParseInit /\ [][ParseNext]_vars

\* ---------------------------------------------------------------------
\* The extraction worker (processChunkWithAI), run on one chunk.
\* ---------------------------------------------------------------------

\* Largest number of questions the oracle returns to a worker run.
MaxWorkerYield == 3

\* The chunk handed to the worker: chunks[0] of an empty page list is
\* undefined; otherwise a text chunk, a Blob or a data:image string.
WorkerChunks ==
    {[defined |-> FALSE, batchNumber |-> 0, content |-> "none"]} \cup
    {[defined |-> TRUE, batchNumber |-> b, content |-> c] :
        b \in 1..MaxBatches, c \in {"text", "blob", "dataImage"}}

\* this.abortController at the call: null, a live signal, an aborted one.
WorkerSignals == {"null", "live", "aborted"}

\* What the oracle (generateQuestionsFromText / generateQuestionsFromImage)
\* does when called: it rejects because the model is not initialized,
\* because the transport failed or because the service refused, or it
\* resolves with a list of questions or with no value.
OracleOutcomes ==
    {[raises |-> TRUE, why |-> w, defined |-> FALSE, count |-> 0] :
        w \in {"notInitialized", "transport", "service"}}
    \cup {[raises |-> FALSE, why |-> "none", defined |-> FALSE, count |-> 0]}
    \cup {[raises |-> FALSE, why |-> "none", defined |-> TRUE, count |-> y] :
            y \in 0..MaxWorkerYield}

\* What processChunkWithAI gives its caller: an exception, null, or a list
\* of `count` questions.
WorkerThrows == [raised |-> TRUE, isNull |-> FALSE, count |-> 0]

WorkerNull == [raised |-> FALSE, isNull |-> TRUE, count |-> 0]

WorkerList(count) == [raised |-> FALSE, isNull |-> FALSE, count |-> count]

WorkerCatchMut(chunk) == WorkerThrows

\* The catch of processChunkWithAI: console.error reads chunk.batchNumber
\* (a TypeError on an undefined chunk), then return [].
WorkerCatch(chunk) ==
    IF chunk.defined THEN WorkerList(0) ELSE WorkerThrows

\* Does the run reach the oracle call?
OracleCalled(chunk, signal) == signal # "aborted" /\ chunk.defined

\* processChunkWithAI(chunk, pdfId)
processChunkWithAI(chunk, signal, oracle) ==
    IF signal = "aborted" THEN WorkerNull
    ELSE IF ~chunk.defined THEN WorkerCatch(chunk)
    ELSE IF oracle.raises THEN WorkerCatch(chunk)
    ELSE IF oracle.defined /\ oracle.count > 0 THEN WorkerList(oracle.count)
    ELSE WorkerList(0)

\* A worker run starts with a chunk, the state of the signal and what the
\* oracle will do.
WorkInit ==
    /\ PipelineInit
    /\ planner = NoRun
    /\ normalizer = NoRun
    /\ store = NoRun
    /\ sync = NoRun
    /\ worker \in {[pc |-> "call", chunk |-> c, signal |-> s, oracle |-> o] :
                     c \in WorkerChunks, s \in WorkerSignals,
                     o \in OracleOutcomes}

\* processPDFInBatches and processQueue call processChunkWithAI.
WorkChunk ==
    /\ worker.pc = "call"
    /\ worker' = [worker EXCEPT
                    !.pc = "returned"] @@
                 [result |-> processChunkWithAI(worker.chunk, worker.signal,
                                                worker.oracle)]
    /\ UNCHANGED <<pipelineVars, planner, normalizer, store, sync>>

WorkNext == WorkChunk

WorkSpec == WorkInit /\ [][WorkNext]_vars

\* ---------------------------------------------------------------------
\* The question store of the DatabaseManager, used on one document.
\* ---------------------------------------------------------------------

\* The numbers of questions a unit yields when its records are stored:
\* a few, and the numbers around the stride of the generated questionId.
UnitYields == {1, 2, 1000, 1001}

\* The sum of the yields of the units stored so far.
RECURSIVE SumYields(_, _)
SumYields(yields, b) ==
    IF b = 0 THEN 0 ELSE yields[b] + SumYields(yields, b - 1)

\* A document whose units are about to be stored: storePDF has run, no
\* unit has records.
StoreInit ==
    /\ PipelineInit
    /\ planner = NoRun
    /\ normalizer = NoRun
    /\ worker = NoRun
    /\ sync = NoRun
    /\ store = [pc |-> "units", pdf |-> StorePDF("docA", MaxBatches),
                questions |-> {}, yields |-> [b \in 1..MaxBatches |-> 0]]

\* storeQuestions(pdfId, questions, batchNumber) for the y questions of
\* unit b, with its getQuestionCount and updatePDFQuestionCount.
StoreUnit(b, y) ==
    LET qs == PutQuestions(store.questions, QuestionRecords(y, b))
    IN /\ store.pc = "units"
       /\ store.yields[b] = 0
       /\ store' = [store EXCEPT
                      !.questions = qs,
                      !.pdf = UpdatePDFQuestionCount(@, Cardinality(qs)),
                      !.yields[b] = y]
       /\ UNCHANGED <<pipelineVars, planner, normalizer, worker, sync>>

StoreNext == \E b \in 1..MaxBatches, y \in UnitYields : StoreUnit(b, y)

StoreSpec == StoreInit /\ [][StoreNext]_vars

\* ---------------------------------------------------------------------
\* importSyncedData, applied to one document's records.
\* ---------------------------------------------------------------------

\* Largest number of imports in a row.
MaxImports == 2

\* The metadata a peer sends: an absent (or zero / false) field is 0 /
\* FALSE / "none".
Metadatas ==
    [batchCount : {0, 2}, completedBatches : {0, 2},
     isComplete : BOOLEAN, processingStatus : {"none", "complete"},
     totalQuestions : {0}]

\* A synced question: its questionId and batchNumber, 0 when absent.
SyncedQuestions == [questionId : {0, 1, 2}, batchNumber : {0, 2}]

SyncedLists ==
    {<<>>} \cup {<<a>> : a \in SyncedQuestions}
           \cup {<<a, b>> : a \in SyncedQuestions, b \in SyncedQuestions}

NoImport == [metadata |-> "none", questions |-> <<>>]

\* storePDFMetadata -> storePDF: put() of a record built from the
\* metadata, with the defaults of storePDF for absent fields.
StorePDFMetadata(metadata) ==
    [exists |-> TRUE,
     isComplete |-> metadata.isComplete,
     processingStatus |-> IF metadata.processingStatus = "none"
                          THEN "pending" ELSE metadata.processingStatus,
     batchCount |-> IF metadata.batchCount = 0 THEN 1 ELSE metadata.batchCount,
     completedBatches |-> metadata.completedBatches,
     totalQuestions |-> metadata.totalQuestions]

\* storeQuestions: the record built for the question at 0-based position
\* index of the list: question.questionId || (batchNumber - 1) * 1000 +
\* index + 1, and question.batchNumber || batchNumber.
SyncedRecord(question, index, batchNumber) ==
    [questionId |-> IF question.questionId # 0 THEN question.questionId
                    ELSE (batchNumber - 1) * 1000 + index + 1,
     batchNumber |-> IF question.batchNumber # 0 THEN question.batchNumber
                     ELSE batchNumber]

\* storeQuestions: the put() of every record of the list, in order.
RECURSIVE PutList(_, _, _, _)
PutList(stored, list, index, batchNumber) ==
    IF index >= Len(list) THEN stored
    ELSE PutList(PutQuestions(stored,
                     {SyncedRecord(list[index + 1], index, batchNumber)}),
                 list, index + 1, batchNumber)

\* The stores before an import: empty, or holding the document with the
\* records of its first unit or a record of a later unit.
ImportInit ==
    /\ PipelineInit
    /\ planner = NoRun
    /\ normalizer = NoRun
    /\ worker = NoRun
    /\ sync = NoRun
    /\ store \in
         {[pc |-> "sync", pdf |-> NoPDF, questions |-> {},
           lastImport |-> NoImport, imports |-> 0, again |-> FALSE]}
         \cup
         {[pc |-> "sync", pdf |-> StorePDF("docA", 2), questions |-> qs,
           lastImport |-> NoImport, imports |-> 0, again |-> FALSE] :
             qs \in {{}, QuestionRecords(2, 1), QuestionRecords(1, 2),
                      QuestionRecords(2, 1) \cup QuestionRecords(1, 2)}}

\* importSyncedData(metadata, questions): storePDFMetadata, then
\* storeQuestions(metadata.id, questions, 1) with its recount.  again
\* records that the arguments are those of the import before.
ImportSyncedData(metadata, list) ==
    LET qs == PutList(store.questions, list, 0, 1)
    IN /\ store.pc = "sync"
       /\ store.imports < MaxImports
       /\ store' = [store EXCEPT
                      !.pdf = UpdatePDFQuestionCount(StorePDFMetadata(metadata),
                                                     Cardinality(qs)),
                      !.questions = qs,
                      !.lastImport = [metadata |-> metadata, questions |-> list],
                      !.imports = @ + 1,
                      !.again = (store.imports >= 1 /\ store.lastImport =
                                   [metadata |-> metadata, questions |-> list])]
       /\ UNCHANGED <<pipelineVars, planner, normalizer, worker, sync>>

ImportNext ==
    \E metadata \in Metadatas, list \in SyncedLists :
        ImportSyncedData(metadata, list)

ImportSpec == ImportInit /\ [][ImportNext]_vars

\* ---------------------------------------------------------------------
\* P2PSyncManager (src/js/p2p-sync-manager.js): one share session between
\* a sender's and a receiver's DatabaseManager over an ordered channel.
\* ---------------------------------------------------------------------

\* CHUNK_SIZE of #prepareDataForSync
CHUNK_SIZE == 20

\* A stored question record with ordinal k of unit b, as far as the transfer
\* is concerned; options and correctAnswer vary with the ordinal.
SyncRecord(k, b) ==
    [questionId |-> k, batchNumber |-> b, options |-> 2 + (k % 3),
     correctAnswer |-> k % 2]

\* The records storeQuestions made of `count` questions of unit batchNumber.
UnitRecords(count, batchNumber) ==
    {SyncRecord((batchNumber - 1) * 1000 + k, batchNumber) : k \in 1..count}

\* The question records the sender holds for the document.
SenderQuestions ==
    {UnitRecords(a, 1) \cup UnitRecords(b, 2) : a \in {0, 1, 20}, b \in {0, 1, 21}}

\* The records the receiver holds for the same fingerprint before the
\* session: none, an older copy of ordinal 1, or a record of a third unit.
ReceiverQuestions ==
    {{}, {[SyncRecord(1, 1) EXCEPT !.options = 6, !.correctAnswer = 5]},
     {SyncRecord(2001, 3)}}

\* getPDFMetadata: null when the document is unknown, else the record
\* without textContent.
NullMetadata == [null |-> TRUE]
GetPDFMetadata(pdf) ==
    IF ~pdf.exists THEN NullMetadata
    ELSE [batchCount |-> pdf.batchCount, completedBatches |-> pdf.completedBatches,
          isComplete |-> pdf.isComplete, processingStatus |-> pdf.processingStatus,
          totalQuestions |-> pdf.totalQuestions]

\* getQuestions: the records sorted by questionId.
RECURSIVE GetQuestions(_)
GetQuestions(qs) ==
    IF qs = {} THEN <<>>
    ELSE LET first == CHOOSE q \in qs : \A r \in qs : q.questionId <= r.questionId
         IN <<first>> \o GetQuestions(qs \ {first})

\* #prepareDataForSync: slices of the list, CHUNK_SIZE records each, the
\* loop running while i < questions.length.
QuestionChunksMut(list) ==
    [i \in 1..(Len(list) \div CHUNK_SIZE) |->
        SubSeq(list, (i - 1) * CHUNK_SIZE + 1, Min(i * CHUNK_SIZE, Len(list)))]

QuestionChunks(list) ==
    [i \in 1..CeilDiv(Len(list), CHUNK_SIZE) |->
        SubSeq(list, (i - 1) * CHUNK_SIZE + 1, Min(i * CHUNK_SIZE, Len(list)))]

\* The messages of one session, in the order of peer.send.
Message(type, data, list) == [type |-> type, data |-> data, list |-> list]

Messages(metadata, chunks) ==
    <<Message("metadata", metadata, <<>>)>>
    \o [i \in 1..Len(chunks) |-> Message("questions", NullMetadata, chunks[i])]
    \o <<Message("complete", NullMetadata, <<>>)>>

\* storeQuestions: the record built from a synced question.
ImportedRecord(question, index, batchNumber) ==
    [questionId |-> SyncedRecord(question, index, batchNumber).questionId,
     batchNumber |-> SyncedRecord(question, index, batchNumber).batchNumber,
     options |-> question.options,
     correctAnswer |-> question.correctAnswer]

\* storeQuestions: the put() of every record of the list, in order.
RECURSIVE PutSynced(_, _, _, _)
PutSynced(stored, list, index, batchNumber) ==
    IF index >= Len(list) THEN stored
    ELSE PutSynced(PutQuestions(stored,
                       {ImportedRecord(list[index + 1], index, batchNumber)}),
                   list, index + 1, batchNumber)

\* A sender that knows the document (complete, two units) or not, with its
\* records; a receiver with its records; the channel not yet open.
SyncInit ==
    /\ PipelineInit
    /\ planner = NoRun
    /\ normalizer = NoRun
    /\ worker = NoRun
    /\ store = NoRun
    /\ sync \in
         {[pc |-> "open",
           senderPdf |-> pdf, senderQuestions |-> sq,
           wire |-> <<>>,
           incomingMetadata |-> NullMetadata, questionAccumulator |-> <<>>,
           pdf |-> IF rq = {} THEN NoPDF
                   ELSE UpdatePDFQuestionCount(StorePDF("docA", 3), Cardinality(rq)),
           questions |-> rq, before |-> rq, imported |-> FALSE] :
             pdf \in {NoPDF, MarkPDFComplete(StorePDF("docA", 2))},
             sq \in SenderQuestions, rq \in ReceiverQuestions}

\* The sender's connect handler: #prepareDataForSync, then the metadata,
\* every chunk and the completion signal are sent.
PeerConnect ==
    /\ sync.pc = "open"
    /\ sync' = [sync EXCEPT
                  !.pc = "transfer",
                  !.wire = Messages(GetPDFMetadata(sync.senderPdf),
                                    QuestionChunks(GetQuestions(sync.senderQuestions)))]
    /\ UNCHANGED <<pipelineVars, planner, normalizer, worker, store>>

\* The receiver's data handler on the next message of the channel.  On
\* complete without metadata it throws (caught and logged); with metadata
\* it runs importSyncedData and destroys the peer.
PeerData ==
    LET msg == Head(sync.wire)
        qs == PutSynced(sync.questions, sync.questionAccumulator, 0, 1)
    IN /\ sync.pc = "transfer"
       /\ sync.wire # <<>>
       /\ sync' =
            IF msg.type = "metadata"
            THEN [sync EXCEPT !.wire = Tail(@), !.incomingMetadata = msg.data]
            ELSE IF msg.type = "questions"
            THEN [sync EXCEPT !.wire = Tail(@),
                              !.questionAccumulator = @ \o msg.list]
            ELSE IF sync.incomingMetadata = NullMetadata
            THEN [sync EXCEPT !.wire = Tail(@), !.pc = "done"]
            ELSE [sync EXCEPT
                    !.wire = Tail(@), !.pc = "done", !.imported = TRUE,
                    !.pdf = UpdatePDFQuestionCount(
                                StorePDFMetadata(sync.incomingMetadata),
                                Cardinality(qs)),
                    !.questions = qs]
       /\ UNCHANGED <<pipelineVars, planner, normalizer, worker, store>>

\* The connection closes before every message was delivered.
PeerClose ==
    /\ sync.pc = "transfer"
    /\ sync.wire # <<>>
    /\ sync' = [sync EXCEPT !.pc = "closed", !.wire = <<>>]
    /\ UNCHANGED <<pipelineVars, planner, normalizer, worker, store>>

SyncNext == PeerConnect \/ PeerData \/ PeerClose

SyncSpec == SyncInit /\ [][SyncNext]_vars

\* ---------------------------------------------------------------------
\* DatabaseManager mutations of one document id that may be unknown.
\* ---------------------------------------------------------------------

\* Number of database calls in a row.
MaxOps == 3

\* How a database call settles.
Resolved == "resolved"
NotFound == "PDF not found"

\* storeQuestions(pdfId, questions, batchNumber) on its own: every record
\* is put in a transaction on the questions store; then getQuestionCount,
\* then updatePDFQuestionCount, which rejects for an unknown id.
DbStoreQuestions(y, b) ==
    LET qs == PutQuestions(store.questions, QuestionRecords(y, b))
    IN /\ store.pc = "db"
       /\ store.ops < MaxOps
       /\ store' = [store EXCEPT
                      !.questions = qs,
                      !.pdf = IF store.pdf.exists
                              THEN UpdatePDFQuestionCount(@, Cardinality(qs))
                              ELSE @,
                      !.op = "storeQuestions",
                      !.outcome = IF store.pdf.exists THEN Resolved ELSE NotFound,
                      !.ops = @ + 1]
       /\ UNCHANGED <<pipelineVars, planner, normalizer, worker, sync>>

\* updatePDFProgress(pdfId, completedBatch): get, then put or reject.
DbUpdatePDFProgress(b) ==
    /\ store.pc = "db"
    /\ store.ops < MaxOps
    /\ store' = [store EXCEPT
                   !.pdf = IF store.pdf.exists THEN UpdatePDFProgress(@, b) ELSE @,
                   !.op = "updatePDFProgress",
                   !.outcome = IF store.pdf.exists THEN Resolved ELSE NotFound,
                   !.ops = @ + 1]
    /\ UNCHANGED <<pipelineVars, planner, normalizer, worker, sync>>

\* markPDFComplete(pdfId) = completePDFProcessing: get, then put or reject.
DbMarkPDFComplete ==
    /\ store.pc = "db"
    /\ store.ops < MaxOps
    /\ store' = [store EXCEPT
                   !.pdf = IF store.pdf.exists THEN MarkPDFComplete(@) ELSE @,
                   !.op = "markPDFComplete",
                   !.outcome = IF store.pdf.exists THEN Resolved ELSE NotFound,
                   !.ops = @ + 1]
    /\ UNCHANGED <<pipelineVars, planner, normalizer, worker, sync>>

\* storePDF({ id, batchCount: n, ... }): put of a fresh record.
DbStorePDF(n) ==
    /\ store.pc = "db"
    /\ store.ops < MaxOps
    /\ store' = [store EXCEPT
                   !.pdf = StorePDF("docA", n),
                   !.op = "storePDF",
                   !.outcome = Resolved,
                   !.ops = @ + 1]
    /\ UNCHANGED <<pipelineVars, planner, normalizer, worker, sync>>

\* deletePDFAndQuestions(pdfId): the record and its questions are deleted.
DbDeletePDFAndQuestions ==
    /\ store.pc = "db"
    /\ store.ops < MaxOps
    /\ store' = [store EXCEPT
                   !.pdf = NoPDF,
                   !.questions = {},
                   !.op = "deletePDFAndQuestions",
                   !.outcome = Resolved,
                   !.ops = @ + 1]
    /\ UNCHANGED <<pipelineVars, planner, normalizer, worker, sync>>

\* A database that does not know the document, or holds it with the
\* records of its first unit.
DbInit ==
    /\ PipelineInit
    /\ planner = NoRun
    /\ normalizer = NoRun
    /\ worker = NoRun
    /\ sync = NoRun
    /\ store \in
         {[pc |-> "db", pdf |-> NoPDF, questions |-> {},
           op |-> "none", outcome |-> "none", ops |-> 0],
          [pc |-> "db",
           pdf |-> UpdatePDFQuestionCount(StorePDF("docA", 2), 1),
           questions |-> QuestionRecords(1, 1),
           op |-> "none", outcome |-> "none", ops |-> 0]}

DbNext ==
    \/ \E y \in 0..MaxYield, b \in 1..MaxBatches : DbStoreQuestions(y, b)
    \/ \E b \in 1..MaxBatches : DbUpdatePDFProgress(b)
    \/ DbMarkPDFComplete
    \/ \E n \in 1..MaxBatches : DbStorePDF(n)
    \/ DbDeletePDFAndQuestions

DbSpec == DbInit /\ [][DbNext]_vars
\* The fairness of the JavaScript event loop: a continuation whose await has
\* resolved runs, a timer that is due fires, time passes, and a drained
\* unit's oracle call either returns or loses the race against the 120 s
\* timer.  Nothing forces a new submission, a cancellation, or the return of
\* the first chunk's oracle call (which has no timeout).
LoopStep(l) ==
    \/ LoopWake(l)
    \/ \E y \in Yields : LoopOracleReturn(l, y)
    \/ LoopTimeout(l)
    \/ LoopProgress(l)
    \/ LoopMark(l)
    \/ LoopMarkEmit(l)
    \/ LoopVerify(l)
    \/ \E p \in PdfIds : LoopVerifyCheck(l, p)

LiveSpec ==
    /\ Init
    /\ [][Next]_vars
    /\ WF_vars(Tick)
    /\ \A l \in LoopIds : WF_vars(LoopStep(l))

\* ------------------------------------------------------------------- claims
\* The processQueue invocations that are inside their while loop.
Draining == {l \in LoopIds : loops[l].pc \in {"rateWait", "inflight", "progress", "mark", "markRead"}}

EmittedTypes(types) == {k \in 1..Len(emitted) : emitted[k].type \in types}

\* Units of every submission that queueRemainingBatches has pushed so far.
TotalEnqueued ==
    LET RECURSIVE Sum(_)
        Sum(i) == IF i = 0 THEN 0 ELSE sub[i].enqueued + Sum(i - 1)
    IN Sum(MaxSubmits)

\* C1: at most one drain loop (processQueue) is inside its while loop at any
\* time, whatever submits, cancellations and oracle completions occurred.
C1_AtMostOneDrainLoop == Cardinality(Draining) <= 1

\* C2: the oracle call of a drained unit never starts less than
\* rateLimitDelay after the start of the previous drained unit's call.
C2_RateLimitRespected ==
    (oracleStart.drained /\ oracleStart.gap # Never)
        => oracleStart.gap >= rateLimitDelay

\* C3: the stored completedBatches of a document never decreases, in any
\* step (first-unit and background persistence, cancellation, re-submission).
C3_CompletedNeverDecreases ==
    [][\A p \in PdfIds :
            pdfs[p].exists =>
                /\ pdfs'[p].exists
                /\ pdfs'[p].completedBatches >= pdfs[p].completedBatches]_vars

C5_CacheHitInv ==
    \A i \in Subs :
        sub[i].sawComplete =>
            /\ sub[i].calls = 0
            /\ sub[i].enqueued = 0
            /\ ~sub[i].wrote
            /\ sub[i].pc \in {"cacheRead", "done"}
            /\ sub[i].pc = "done" => (sub[i].fromCache /\ sub[i].outcome = "cache")

C5_CacheIdempotence ==
    /\ []C5_CacheHitInv
    /\ [][\A i \in Subs :
            (sub[i].sawComplete /\ sub[i].pc # "done" /\ sub'[i].pc = "done") =>
                /\ sub'[i].fromCache
                /\ sub'[i].result = questions'[sub[i].pdfId]
                /\ UNCHANGED <<pdfs, questions, processingQueue, loops, drainCalls>>
                /\ oracleStart' = NoCall]_vars

\* C5 witness: a submission returned from the cache with stored records.
C5_Witness ==
    \E i \in Subs :
        /\ sub[i].pc = "done"
        /\ sub[i].fromCache
        /\ sub[i].sawComplete
        /\ sub[i].result # {}
        /\ sub[i].result = questions[sub[i].pdfId]

\* C6: once a submission of a plan of at least two units has stored its
\* first unit and queued the rest, then, unless a cancellation is requested,
\* whichever background units fail, the queue drains completely (an oracle
\* call was issued for every queued unit, none is left pending or in work)
\* and the document has been marked complete and notified.
C6_Queued ==
    /\ cancels = 0
    /\ \E i \in Subs : sub[i].outcome = "first" /\ sub[i].enqueued >= 1

C6_Drained ==
    /\ processingQueue = <<>>
    /\ Draining = {}
    /\ drainCalls = TotalEnqueued
    /\ \A i \in Subs : sub[i].enqueued >= 1 => completeNotified[sub[i].pdfId]

C6_EventualCompletion == C6_Queued ~> (cancels > 0 \/ C6_Drained)

\* C6 witness: without any cancellation a plan of at least three units was
\* drained to completion although a background unit failed.
C6_Witness ==
    /\ cancels = 0
    /\ C6_Drained
    /\ \E i \in Subs :
        /\ sub[i].enqueued >= 2
        /\ failedUnits[sub[i].pdfId]
        /\ pdfs[sub[i].pdfId].exists
        /\ pdfs[sub[i].pdfId].isComplete

\* C7: whenever processingComplete is emitted for a document, its stored
\* completedBatches equals its batchCount.
C7_CompleteMeansAllCounted ==
    \A k \in EmittedTypes({"processingComplete"}) :
        LET p == emitted[k].pdfId
        IN pdfs[p].completedBatches = pdfs[p].batchCount

\* C8: a processingComplete notification carries the error flag exactly when
\* some background unit of the document failed.
C8_ErrorFlagIffUnitFailed ==
    \A k \in EmittedTypes({"processingComplete"}) :
        emitted[k].hasErrors <=> failedUnits[emitted[k].pdfId]

\* C9: once cancelProcessing has run, no unit of the work it cancelled is
\* pending in the queue and no oracle call is issued for such a unit.
C9_NoWorkAfterCancel ==
    /\ \A k \in 1..Len(processingQueue) : processingQueue[k].sub \notin cancelledSubs
    /\ oracleStart.sub \notin cancelledSubs

\* C10: when cancelProcessing runs while a unit's oracle call is in flight,
\* the records that call returns are not persisted, the completed-unit
\* counter is not advanced for it, and no firstBatchReady, batchCompleted or
\* processingComplete is emitted for it.
C10_NothingAfterCancelInFlight ==
    /\ \A l \in LoopIds : loops[l].stale => loops[l].pc # "progress"
    /\ \A i \in Subs :
            sub[i].stale =>
                /\ sub[i].pc \notin {"firstProgress", "firstMark"}
                /\ sub[i].outcome # "first"
    /\ \A k \in EmittedTypes({"firstBatchReady", "batchCompleted", "processingComplete"}) :
            ~emitted[k].stale

\* C11: for one document the completion (markPDFComplete followed by the
\* processingComplete notification) happens at most once, over the last-unit
\* path, its error path, the fallback verification and re-submission.
C11_CompletedAtMostOnce == \A p \in PdfIds : completeCount[p] <= 1

C12_Outcome ==
    \A i \in Subs :
        sub[i].pc = "done" =>
            \/ sub[i].outcome \in {"first", "cache"} /\ sub[i].result # {}
            \/ sub[i].outcome = "error"
            \/ sub[i].outcome = "cancelled" /\ i \in cancelledSubs

ReturnsFirst(i) ==
    /\ sub[i].pc # "done"
    /\ sub'[i].pc = "done"
    /\ sub'[i].outcome = "first"

QueuedOf(q, i) == SelectSeq(q, LAMBDA it : it.sub = i)

\* C14 as stated: when a call planned as n >= 2 chunks returns its result,
\* the result is the first unit's records with fromCache = false, the
\* document is not complete, and units 2..n are with the background
\* scheduler in ordinal order: all pending, or unit 2 taken by the
\* processQueue invocation this step started and the rest pending.
C14_MultiUnitReturn ==
    [][\A i \in Subs :
            (ReturnsFirst(i) /\ sub[i].total >= 2) =>
                LET p == sub[i].pdfId
                    full == RemainingItems(i, p, sub[i].total)
                    mine == QueuedOf(processingQueue', i)
                IN /\ ~sub'[i].fromCache
                   /\ sub'[i].result = QuestionRecords(Cardinality(sub'[i].result), 1)
                   /\ sub'[i].result # {}
                   /\ ~pdfs'[p].isComplete
                   /\ sub'[i].enqueued = sub[i].total - 1
                   /\ \/ mine = full
                      \/ /\ mine = Tail(full)
                         /\ \E l \in LoopIds :
                                /\ loops[l].pc = "off"
                                /\ loops'[l].pc \in {"rateWait", "inflight"}
                                /\ loops'[l].item = full[1]]_vars

\* The processQueue invocations that hold a popped unit.
LoopsInWork == {l \in LoopIds : loops[l].pc \in {"rateWait", "inflight", "progress", "mark", "markRead"}}

\* The processPDFInBatches invocations that are working on their first unit.
SubsInWork == {i \in Subs : sub[i].pc \in {"firstAI", "firstProgress", "firstMark"}}

\* C15: when the oracle call for a unit of a document is issued, no unit of
\* that document with a smaller ordinal is unfinished (in work) and every
\* unit of it still pending has a larger ordinal.
C15_AscendingOrder ==
    oracleStart.batchNumber > 0 =>
        LET b == oracleStart.batchNumber
            p == sub[oracleStart.sub].pdfId
        IN /\ \A k \in 1..Len(processingQueue) :
                processingQueue[k].pdfId = p => processingQueue[k].batchNumber > b
           /\ \A l \in LoopsInWork :
                loops[l].item.pdfId = p => loops[l].item.batchNumber >= b
           /\ \A i \in SubsInWork : sub[i].pdfId = p => b = 1

\* The oracle calls for document p that have been issued and have not
\* returned: first-unit calls, calls of drained units, and calls the 120 s
\* timer abandoned.
CallsInFlight(p) ==
    Cardinality({i \in Subs : sub[i].pc = "firstAI" /\ sub[i].pdfId = p})
    + Cardinality({l \in LoopIds : loops[l].pc = "inflight" /\ loops[l].item.pdfId = p})
    + lateCalls[p]

\* C16: at most one oracle call per document is in flight at any time.
C16_CallsSerialized == \A p \in PdfIds : CallsInFlight(p) <= 1


\* ---------------------------------------------------------------------
\* The planner's contract
\* ---------------------------------------------------------------------

RECURSIVE ConcatContents(_)
ConcatContents(chunks) ==
    IF chunks = <<>> THEN <<>>
    ELSE Head(chunks).content \o ConcatContents(Tail(chunks))

Planned == planner.pc = "planned"

MultiPlanned == Planned /\ Len(planner.chunks) >= 2

\* C17: the contents of the planned units, concatenated in ordinal order,
\* are the tokens of the source text in their original order, each token
\* once: no gap and no overlap.
C17_Coverage ==
    Planned =>
      /\ ConcatContents(planner.chunks) = [k \in 1..planner.text.words |-> k]
      /\ \A k \in 1..Len(planner.chunks) : planner.chunks[k].batchNumber = k

\* A plan whose last unit took the words left over after the target count
\* was reached.
C17_Witness ==
    /\ MultiPlanned
    /\ \E k \in 1..Len(planner.chunks) :
          Len(planner.chunks[k].content) # Len(planner.chunks[1].content)

IsSmallText(t) == t.length < 20000 /\ estimateQuestionCount(t) <= 10

C18_WitnessSingle ==
    /\ Planned
    /\ Len(planner.chunks) = 1
    /\ planner.text.words > 1

\* ---------------------------------------------------------------------
\* The normalizer's contract
\* ---------------------------------------------------------------------

Parsed == normalizer.pc = "parsed"

\* C19: every record parseChunkResponse returns, through any of its
\* stages, has 4 to 5 options and a correctAnswer that indexes one.
C19_OutputInvariant ==
    (Parsed /\ ~normalizer.result.raised) =>
      \A k \in 1..Len(normalizer.result.questions) :
         LET q == normalizer.result.questions[k]
         IN  /\ 4 <= q.options /\ q.options <= 5
             /\ 0 <= q.correctAnswer /\ q.correctAnswer < q.options

\* A record that was padded from two options, with its answer reset.
C19_Witness ==
    /\ Parsed
    /\ normalizer.text.json.ok
    /\ Len(normalizer.text.json.entries) = 1
    /\ normalizer.text.json.entries[1].kind = "object"
    /\ normalizer.text.json.entries[1].options = 2
    /\ normalizer.text.json.entries[1].correctAnswer = 3
    /\ normalizer.result.questions = <<Question(4, 0)>>

C19_WitnessRaw ==
    /\ Parsed
    /\ normalizer.text.bracket = "none"
    /\ normalizer.result.questions = <<Question(5, 4)>>

\* C20: parseChunkResponse returns a list for every text and never
\* raises.
C20_NeverRaises == Parsed => ~normalizer.result.raised

\* A null entry after a valid one: the filter throws and the fallback
\* returns what the regex finds.
C20_Witness ==
    /\ Parsed
    /\ normalizer.text.json.ok
    /\ normalizer.text.json.entries = <<GoodEntry, NullEntry>>
    /\ ~normalizer.result.raised

C20_WitnessNoBracket ==
    /\ Parsed
    /\ normalizer.text.bracket = "none"
    /\ normalizer.result = Returned(<<>>)

\* ---------------------------------------------------------------------
\* The extraction worker's contract
\* ---------------------------------------------------------------------

Worked == worker.pc = "returned"

\* C21: when the oracle call raises, processChunkWithAI does not raise: it
\* returns the empty list.
C21_FailureSwallowed ==
    (/\ Worked
     /\ OracleCalled(worker.chunk, worker.signal)
     /\ worker.oracle.raises)
    => worker.result = WorkerList(0)

\* A transport failure on a queued unit, returned as the empty list.
C21_Witness ==
    /\ Worked
    /\ worker.signal = "live"
    /\ worker.chunk.batchNumber = 2
    /\ worker.oracle.why = "transport"
    /\ worker.result = WorkerList(0)

\* ---------------------------------------------------------------------
\* Planning errors
\* ---------------------------------------------------------------------

\* C22: planning the empty text creates no work unit (and so no oracle
\* call is made for it).
C22_EmptyRejected ==
    (Planned /\ planner.text.length = 0) => planner.chunks = <<>>

\* ---------------------------------------------------------------------
\* The question store's contract
\* ---------------------------------------------------------------------

\* C24: no two questions of a document get the same ordinal, whatever the
\* units yield: every unit's records are all there after any other unit
\* was stored.
C24_OrdinalsUnique ==
    store.pc = "units" =>
      /\ Cardinality(store.questions) = SumYields(store.yields, MaxBatches)
      /\ \A b \in 1..MaxBatches :
            Cardinality({q \in store.questions : q.batchNumber = b})
               = store.yields[b]
      /\ store.pdf.totalQuestions = SumYields(store.yields, MaxBatches)

NoDuplicateOrdinals(qs) ==
    \A a \in qs, b \in qs : a.questionId = b.questionId => a = b

\* The step is an import with the arguments of the import before it.
SameImportAgain ==
    /\ store.pc = "sync"
    /\ store'.imports = store.imports + 1
    /\ store'.again

\* C23: importing the same metadata and questions a second time leaves the
\* question records (no ordinal twice, same count) and the one document
\* record as the first import left them.
C23_ImportIdempotent ==
    [][ /\ (store.pc = "sync" /\ store'.imports = store.imports + 1) =>
             /\ NoDuplicateOrdinals(store'.questions)
             /\ store'.pdf.exists
             /\ store'.pdf.totalQuestions = Cardinality(store'.questions)
        /\ SameImportAgain =>
             /\ store'.questions = store.questions
             /\ store'.pdf = store.pdf ]_vars

\* Two imports of the same two questions over a document that already had
\* records.
C23_Witness ==
    /\ store.pc = "sync"
    /\ store.again
    /\ Len(store.lastImport.questions) = 2
    /\ Cardinality(store.questions) = 3
    /\ store.pdf.totalQuestions = 3

\* ---------------------------------------------------------------------
\* Cancellation and the stores
\* ---------------------------------------------------------------------

\* C25: cancelProcessing leaves every stored question record and every
\* document record as it was.
C25_CancelKeepsStores ==
    [][cancels' # cancels => (pdfs' = pdfs /\ questions' = questions)]_vars

\* A cancellation after a unit was stored and counted.
C25_Witness ==
    /\ cancels = 1
    /\ \E p \in PdfIds :
          /\ questions[p] # {}
          /\ pdfs[p].exists
          /\ pdfs[p].completedBatches >= 1
    /\ EmittedTypes({"processingCancelled"}) # {}

\* ---------------------------------------------------------------------
\* The normalizer's rules for one candidate
\* ---------------------------------------------------------------------

\* The response parsed to one object entry that passes the structure test
\* (a question, an options array, a numeric correctAnswer).
OneCandidate ==
    /\ Parsed
    /\ normalizer.text.json.ok
    /\ normalizer.text.bracket = "balanced"
    /\ Len(normalizer.text.json.entries) = 1
    /\ normalizer.text.json.entries[1].kind = "object"
    /\ normalizer.text.json.entries[1].question
    /\ normalizer.text.json.entries[1].optionsIsArray
    /\ normalizer.text.json.entries[1].answerIsNumber

Candidate == normalizer.text.json.entries[1]

\* The record returned for a candidate with n options: n options when n
\* is 4 or 5, 4 when n is below 4, 5 when n is above 5; its answer is
\* inside the list, and is the candidate's when that pointed into the
\* kept part of the list.
NormalizedOptions ==
    LET n == Candidate.options
        c == Candidate.correctAnswer
        out == normalizer.result.questions
    IN  /\ ~normalizer.result.raised
        /\ Len(out) = 1
        /\ out[1].options = (IF n < 4 THEN 4 ELSE IF n > 5 THEN 5 ELSE n)
        /\ 0 <= out[1].correctAnswer
        /\ out[1].correctAnswer < out[1].options
        /\ (0 <= c /\ c < n /\ c < 5) => out[1].correctAnswer = c

\* C26 as stated: every structurally valid candidate with n options is
\* returned with its options kept (4 or 5), padded to 4 (below 4) or cut to
\* 5 (above 5), its answer inside the list.
C26_OptionCountAll == OneCandidate => NormalizedOptions

\* C26, amended: this holds for the candidates with at least 2 options; a
\* candidate with fewer than 2 options is discarded.
C26_OptionCount ==
    OneCandidate =>
       IF Candidate.options >= 2 THEN NormalizedOptions
       ELSE normalizer.result = Returned(<<>>)

\* A candidate with six options and answer 5, cut to five with answer 0.
C26_Witness ==
    /\ OneCandidate
    /\ Candidate.options = 6
    /\ Candidate.correctAnswer = 5
    /\ normalizer.result.questions = <<Question(5, 0)>>

C26_WitnessPadded ==
    /\ OneCandidate
    /\ Candidate.options = 3
    /\ Candidate.correctAnswer = 2
    /\ normalizer.result.questions = <<Question(4, 2)>>

\* The candidate's answer is negative or not below its number of options.
AnswerOutOfRange ==
    \/ Candidate.correctAnswer < 0
    \/ Candidate.correctAnswer >= Candidate.options

\* C27: a candidate whose answer is out of range is returned with answer
\* 0, and with a provenance tag that tells it from an untouched record of
\* the oracle (which is stored as "ai").
C27_ClampedAndTagged ==
    (OneCandidate /\ Candidate.options >= 2 /\ AnswerOutOfRange) =>
       /\ Len(normalizer.result.questions) = 1
       /\ normalizer.result.questions[1].correctAnswer = 0
       /\ StoredSource(normalizer.result.questions[1]) # "ai"

\* C28: a candidate whose answer is a letter is kept, with the letter's
\* zero-based index as its answer, in the structured-parse stage too.
C28_LetterConverted ==
    (/\ Parsed
     /\ normalizer.text.json.ok
     /\ normalizer.text.bracket = "balanced"
     /\ Len(normalizer.text.json.entries) = 1
     /\ Candidate.kind = "object"
     /\ Candidate.question
     /\ Candidate.optionsIsArray
     /\ Candidate.options >= 4
     /\ ~Candidate.answerIsNumber
     /\ Candidate.answerLetter # NoLetter)
    => /\ Len(normalizer.result.questions) = 1
       /\ normalizer.result.questions[1].correctAnswer = Candidate.answerLetter

\* ---------------------------------------------------------------------
\* The size of the planned units
\* ---------------------------------------------------------------------

\* C29: in a plan of several units the words left over after the even
\* split are in the last unit, and no unit holds fewer than 30% of
\* floor(words / units) words.
C29_NoUndersizedUnit ==
    MultiPlanned =>
      LET chunks == planner.chunks
          n == Len(chunks)
          W == planner.text.words
          target == W \div n
      IN  /\ \A k \in 1..n :
                /\ 10 * Len(chunks[k].content) >= 3 * target
                /\ chunks[k].wordsCount = Len(chunks[k].content)
          /\ \A k \in 1..(n - 1) : Len(chunks[k].content) = target
          /\ chunks[n].content = [j \in 1..(W - (n - 1) * target) |->
                                     (n - 1) * target + j]

\* A plan of three units over 62 words: 20, 20 and 22.
C29_Witness ==
    /\ MultiPlanned
    /\ planner.text.words = 62
    /\ Len(planner.chunks) = 3
    /\ Len(planner.chunks[3].content) = 22

\* ---------------------------------------------------------------------
\* The fallback verification pass
\* ---------------------------------------------------------------------

\* Loop l's verification pass handles document p in this step.
VerifyCheckStep(l, p) ==
    /\ loops[l].pc = "verifyCheck"
    /\ \E s \in loops[l].snapshot : s.pdfId = p
    /\ ~\E s \in loops'[l].snapshot : s.pdfId = p

\* The step marks document p complete.
MarksComplete(p) == completeCount'[p] = completeCount[p] + 1

\* The pass starts only when the drain loop ends with no cancellation and
\* an empty pending list.
C30_StartsAfterCleanExit ==
    \A l \in LoopIds :
       (loops[l].pc # "verify" /\ loops'[l].pc = "verify") =>
          (~Aborted' /\ processingQueue' = <<>>)

\* The pass marks nothing while the pending list is non-empty.
C30_IdleWhilePending ==
    \A l \in LoopIds, p \in PdfIds :
       (VerifyCheckStep(l, p) /\ MarksComplete(p)) => processingQueue = <<>>

\* The pass marks a document complete, and emits processingComplete,
\* exactly when it is still incomplete and the distinct unit numbers of
\* its records are at least its planned units.
C30_MarksIffAllUnits ==
    \A l \in LoopIds, p \in PdfIds :
       VerifyCheckStep(l, p) =>
          /\ MarksComplete(p) <=>
                /\ ~pdfs[p].isComplete
                /\ BatchesProcessed(questions[p]) >= pdfs[p].batchCount
          /\ MarksComplete(p) =>
                /\ pdfs'[p].isComplete
                /\ EmittedTypes({"processingComplete"})' # {}
          /\ ~MarksComplete(p) =>
                /\ pdfs'[p] = pdfs[p]
                /\ EmittedTypes({"processingComplete"})' = {}

\* C30: the fallback verification runs only after the drain loop has
\* ended without cancellation, does nothing while the pending list is
\* non-empty, and marks a still-incomplete document complete (emitting
\* processingComplete) if and only if the distinct unit numbers among its
\* stored questions are at least its planned units.
C30_FallbackVerification ==
    [][ /\ C30_StartsAfterCleanExit
        /\ C30_IdleWhilePending
        /\ C30_MarksIffAllUnits ]_vars


\* ---------------------------------------------------------------------
\* Units are consumed once
\* ---------------------------------------------------------------------

\* C31: for one submission at most one oracle call is issued per unit,
\* whatever the call's outcome (records, no records, error, timeout): a
\* unit is never handed to the oracle a second time.
C31_AtMostOneCallPerUnit ==
    \A i \in Subs, b \in 1..MaxBatches : unitCalls[i][b] <= 1

\* A three-unit submission whose second unit's call failed (no records, an
\* error or the timeout) and whose every unit has been handed to the oracle.
C31_Witness ==
    \E i \in Subs :
       /\ sub[i].total = 3
       /\ failedUnits[sub[i].pdfId]
       /\ \A b \in 1..3 : unitCalls[i][b] = 1
       /\ processingQueue = <<>>
       /\ \A l \in LoopIds : loops[l].pc = "off"

\* ---------------------------------------------------------------------
\* Notification order
\* ---------------------------------------------------------------------

\* A batchCompleted notification is emitted for a unit of submission i in
\* this step.
UnitCompletedStep(i) == notified'[i].count # notified[i].count

\* C32: the notifications of one submission are monotonic: a batchCompleted
\* comes only after the submission's firstBatchReady, carries a batchNumber
\* (which is also its completedBatches) greater than that of the
\* submission's previous batchCompleted, and never follows the
\* submission's processingComplete.
C32_MonotonicNotifications ==
    [][ \A i \in Subs :
           UnitCompletedStep(i) =>
              /\ notified[i].first
              /\ notified'[i].last > notified[i].last
              /\ ~notified[i].complete ]_vars

\* ---------------------------------------------------------------------
\* Transfer round trip
\* ---------------------------------------------------------------------

\* The receiver has handled the complete message of a session whose
\* metadata it received.
TransferDone == sync.pc = "done" /\ sync.incomingMetadata # NullMetadata

\* The receiver imports on the complete message only, and not at all
\* without metadata: until then its records are those it had before.
ImportsOnlyOnComplete ==
    /\ sync.pc \in {"open", "transfer", "closed"} =>
          (~sync.imported /\ sync.questions = sync.before)
    /\ (sync.pc = "done" /\ sync.incomingMetadata = NullMetadata) =>
          (~sync.imported /\ sync.questions = sync.before)
    /\ TransferDone => sync.imported

\* C33 as stated: after the metadata, every chunk and the complete message
\* the receiver holds for the fingerprint exactly the sender's records
\* (same ordinals, unit numbers, options and correct indices); it imports
\* only on the complete message and nothing without metadata.
C33_RoundTripExact ==
    sync.pc # "idle" =>
       /\ ImportsOnlyOnComplete
       /\ TransferDone => sync.questions = sync.senderQuestions

\* C33, amended: the receiver then holds every record of the sender, beside
\* them only records it held before under other ordinals, and exactly the
\* sender's records when it held none; it imports only on the complete
\* message and nothing without metadata.
C33_RoundTrip ==
    sync.pc # "idle" =>
       /\ ImportsOnlyOnComplete
       /\ TransferDone =>
             /\ sync.senderQuestions \subseteq sync.questions
             /\ sync.questions \ sync.senderQuestions =
                  {q \in sync.before :
                     \A s \in sync.senderQuestions : s.questionId # q.questionId}
             /\ sync.before = {} => sync.questions = sync.senderQuestions
             /\ sync.pdf.totalQuestions = Cardinality(sync.questions)

\* A transfer of 41 records in three pages to a receiver that held none.
C33_Witness ==
    /\ TransferDone
    /\ sync.before = {}
    /\ Cardinality(sync.senderQuestions) = 41
    /\ Len(sync.questionAccumulator) = 41
    /\ sync.questions = sync.senderQuestions

\* A transfer that replaced the receiver's older copy of ordinal 1.
C33_WitnessReplaced ==
    /\ TransferDone
    /\ sync.before # {}
    /\ \E q \in sync.before : q.questionId = 1 /\ q \notin sync.questions
    /\ SyncRecord(1, 1) \in sync.questions

\* ---------------------------------------------------------------------
\* Completion and skipped units
\* ---------------------------------------------------------------------

\* Submission i planned the stored document p and every one of its units
\* has been handed to the oracle.
AllUnitsCalled(i, p) ==
    /\ sub[i].pdfId = p
    /\ sub[i].total = pdfs[p].batchCount
    /\ \A b \in 1..sub[i].total : unitCalls[i][b] >= 1

\* C34: a stored document is complete only if some submission that planned
\* it has had an oracle call issued for each of its units 1..n; a unit
\* skipped without a call never leaves the document complete.
C34_CompleteMeansAllCalled ==
    \A p \in PdfIds :
       (pdfs[p].exists /\ pdfs[p].isComplete) => \E i \in Subs : AllUnitsCalled(i, p)

\* ---------------------------------------------------------------------
\* Cancellation notifications
\* ---------------------------------------------------------------------

\* C35: each cancelProcessing produces exactly one processingCancelled
\* notification: the step of a cancellation emits one, and no other step
\* emits any, whatever the drain loop was doing.
C35_OneCancelledPerCancel ==
    [][ Cardinality(EmittedTypes({"processingCancelled"}))' =
           IF cancels' # cancels THEN 1 ELSE 0 ]_vars

\* ---------------------------------------------------------------------
\* The client-side timeout
\* ---------------------------------------------------------------------

\* The 120 s timer beats the oracle call of a unit of document p in this step.
TimesOutStep(p) == lateCalls'[p] = lateCalls[p] + 1

\* An oracle call that had timed out returns in this step.
LateReturnStep(p) == lateCalls'[p] = lateCalls[p] - 1

\* C36: when the oracle call of a background unit exceeds the 120 s
\* timeout the unit counts as failed and its loop moves on (to the next
\* unit, to the completion of a last unit, or out of the loop) with no
\* record stored and no batchCompleted; what the call returns later is not
\* stored and not announced.
C36_TimedOutUnitDropped ==
    [][ \A p \in PdfIds :
          /\ TimesOutStep(p) =>
                /\ failedUnits'[p]
                /\ questions' = questions
                /\ EmittedTypes({"batchCompleted"})' = {}
                /\ \E l \in LoopIds :
                      /\ loops[l].pc = "inflight"
                      /\ loops[l].item.pdfId = p
                      /\ \/ loops'[l].pc \in {"mark", "off", "verify"}
                         \/ /\ loops'[l].pc \in {"rateWait", "inflight"}
                            /\ loops'[l].item # loops[l].item
          /\ LateReturnStep(p) =>
                /\ questions' = questions
                /\ pdfs' = pdfs
                /\ emitted' = <<>> ]_vars

\* The last unit of a document timed out, its call has returned since, and
\* the completion carries hasErrors while only the first unit has records.
C36_Witness ==
    \E p \in PdfIds :
       /\ lateCalls[p] = 0
       /\ failedUnits[p]
       /\ BatchesProcessed(questions[p]) = 1
       /\ \E k \in 1..Len(emitted) :
             /\ emitted[k].type = "processingComplete"
             /\ emitted[k].pdfId = p
             /\ emitted[k].hasErrors

\* ---------------------------------------------------------------------
\* Completion notifications and the stored record
\* ---------------------------------------------------------------------

\* C37: at the moment a processingComplete notification is emitted for a
\* document, its stored record is complete (isComplete, processingStatus
\* "complete"), on the error paths of the drain loop as well.
C37_NotifiedMeansStoredComplete ==
    \A k \in 1..Len(emitted) :
       emitted[k].type = "processingComplete" =>
          /\ pdfs[emitted[k].pdfId].exists
          /\ pdfs[emitted[k].pdfId].isComplete
          /\ pdfs[emitted[k].pdfId].processingStatus = "complete"

\* ---------------------------------------------------------------------
\* Mutations of an unknown document id
\* ---------------------------------------------------------------------

\* The database call made in this step is `op`, on an id without a record.
OnUnknownId(op) ==
    /\ store.pc = "db"
    /\ ~store.pdf.exists
    /\ store'.ops = store.ops + 1
    /\ store'.op = op

\* C38: storeQuestions on an id that has no document record fails with
\* not-found and leaves the question records as they were; updatePDFProgress
\* and markPDFComplete on such an id fail with not-found too; none of them
\* creates a document record.
C38_UnknownIdRejected ==
    [][ /\ OnUnknownId("storeQuestions") =>
              /\ store'.outcome = NotFound
              /\ store'.questions = store.questions
              /\ ~store'.pdf.exists
        /\ (OnUnknownId("updatePDFProgress") \/ OnUnknownId("markPDFComplete")) =>
              /\ store'.outcome = NotFound
              /\ store'.questions = store.questions
              /\ ~store'.pdf.exists ]_vars

\* ---------------------------------------------------------------------
\* Content of the planned units
\* ---------------------------------------------------------------------

\* C39: every unit of the plan of a non-empty text holds at least one
\* word, unit 1 included, whatever the word count and the target count.
C39_NoEmptyUnit ==
    (Planned /\ planner.text.length > 0) =>
        \A k \in 1..Len(planner.chunks) : Len(planner.chunks[k].content) >= 1

\* ---------------------------------------------------------------------
\* The stored question count
\* ---------------------------------------------------------------------

\* C40: between store operations, the totalQuestions of every stored
\* document is the number of question records persisted under its id.
C40_CountMatchesRecords ==
    \A p \in PdfIds :
        pdfs[p].exists => pdfs[p].totalQuestions = Cardinality(questions[p])
====
